---- MODULE Spec2Model ----
(***************************************************************************)
(* Model of scripts/sync-docs.mjs of phoenix-docs: the documentation sync  *)
(* engine (full sync, watch-mode incremental sync, sidebar manifest).      *)
(*                                                                         *)
(* Text is a sequence of one-character strings, so that slugify, the       *)
(* pattern matcher and the title derivation are computed character by      *)
(* character as the JavaScript does.  A path is a sequence of names.       *)
(***************************************************************************)
EXTENDS Integers, Sequences, FiniteSets, TLC

VARIABLES
  src,          \* the source tree /project/docs: path -> file content
  docsJson,     \* the content of /project/docs/docs.json
  dest,         \* the destination tree /app/src/content/docs: path -> file
  manifest,     \* src/sidebar.generated.mjs: sequence of sections (<<>> = no file yet)
  foundGroups,  \* `groups` of the last initialSync (its "Found n sidebar groups" log)
  phase,        \* "idle" | "starting" | "watching" | "crashed": the process
  config,       \* watchAndSync's `config`, loaded once at watcher start
  knownGroups,  \* watchAndSync's `knownGroups`
  queue,        \* chokidar events emitted and not yet handled
  readdirOrder, \* the enumeration order of readdirSync on this filesystem
  edits,        \* number of edits made to the source tree so far
  trail,        \* history: what happened since the last full sync
  last,         \* history: the last thing the program did, if no edit followed
  fnIn,         \* input of the function under test (SpecFn)
  fnOut,        \* its result (SpecFn)
  running       \* the handler activations begun and not yet returned (SpecSteps)

vars == <<src, docsJson, dest, manifest, foundGroups, phase, config,
          knownGroups, queue, readdirOrder, edits, trail, last, fnIn, fnOut,
          running>>

-----------------------------------------------------------------------------
(* Bounds *)

MaxFiles == 2      \* files in the source tree at once
MaxEdits == 2      \* edits of the source tree in one behaviour
MaxLabelLen == 4   \* length of a group label drawn for slugify
MaxOrderLen == 3   \* length of a group_order list drawn for generateSidebarConfig
MaxPatternLen == 3 \* length of a name and of a pattern drawn for matchesPattern
MaxValueLen == 3   \* length of a frontmatter value drawn for the frontmatter functions
MaxNameLen == 3    \* length of a file name, before its extension, drawn for filenameToTitle
MaxDocs == 3       \* documents handed to groupDocs

-----------------------------------------------------------------------------
(* Characters and strings *)

\* The characters used, in UTF-16 code unit order (what String < and
\* Array.prototype.sort() compare by).
AsciiOrder ==
  <<" ", "!", "#", "'", "*", "+", "-", ".", "/",
    "0", "1", "2", "3", "4", "5", "6", "7", "8", "9", ":",
    "A", "B", "C", "D", "E", "F", "G", "H", "I", "J", "K", "L", "M",
    "N", "O", "P", "Q", "R", "S", "T", "U", "V", "W", "X", "Y", "Z", "_",
    "a", "b", "c", "d", "e", "f", "g", "h", "i", "j", "k", "l", "m",
    "n", "o", "p", "q", "r", "s", "t", "u", "v", "w", "x", "y", "z">>

UpperChars ==
  <<"A", "B", "C", "D", "E", "F", "G", "H", "I", "J", "K", "L", "M",
    "N", "O", "P", "Q", "R", "S", "T", "U", "V", "W", "X", "Y", "Z">>

LowerChars ==
  <<"a", "b", "c", "d", "e", "f", "g", "h", "i", "j", "k", "l", "m",
    "n", "o", "p", "q", "r", "s", "t", "u", "v", "w", "x", "y", "z">>

DigitChars == <<"0", "1", "2", "3", "4", "5", "6", "7", "8", "9">>

Range(s) == {s[i] : i \in 1..Len(s)}

IndexIn(s, c) == CHOOSE i \in 1..Len(s) : s[i] = c

Ord(c) == IndexIn(AsciiOrder, c)

IsUpper(c) == c \in Range(UpperChars)
IsLower(c) == c \in Range(LowerChars)
IsDigit(c) == c \in Range(DigitChars)

\* \w of a JavaScript regular expression
IsWordChar(c) == IsUpper(c) \/ IsLower(c) \/ IsDigit(c) \/ c = "_"

toLowerCase(c) == IF IsUpper(c) THEN LowerChars[IndexIn(UpperChars, c)] ELSE c
toUpperCase(c) == IF IsLower(c) THEN UpperChars[IndexIn(LowerChars, c)] ELSE c

StartsWith(s, p) == Len(p) <= Len(s) /\ SubSeq(s, 1, Len(p)) = p
EndsWith(s, p) == Len(p) <= Len(s) /\ SubSeq(s, Len(s) - Len(p) + 1, Len(s)) = p

\* s < t for JavaScript strings
RECURSIVE StrLess(_, _)
StrLess(s, t) ==
  IF t = <<>> THEN FALSE
  ELSE IF s = <<>> THEN TRUE
  ELSE IF Head(s) = Head(t) THEN StrLess(Tail(s), Tail(t))
  ELSE Ord(Head(s)) < Ord(Head(t))

\* The strings of length at most n over the characters cs
RECURSIVE StringsUpTo(_, _)
StringsUpTo(cs, n) ==
  IF n = 0 THEN {<<>>}
  ELSE LET shorter == StringsUpTo(cs, n - 1)
       IN shorter \cup {Append(s, c) : s \in shorter, c \in cs}

-----------------------------------------------------------------------------
(* slugify, filenameToTitle *)

IsSlugChar(c) == IsLower(c) \/ IsDigit(c)

RECURSIVE DropNonSlug(_)
DropNonSlug(s) ==
  IF s = <<>> \/ IsSlugChar(Head(s)) THEN s ELSE DropNonSlug(Tail(s))

\* a plausible slip: the regular expression without its +
RECURSIVE ReplaceNonSlugRuns_each(_)
ReplaceNonSlugRuns_each(s) ==
  IF s = <<>> THEN <<>>
  ELSE IF IsSlugChar(Head(s)) THEN <<Head(s)>> \o ReplaceNonSlugRuns_each(Tail(s))
  ELSE <<"-">> \o ReplaceNonSlugRuns_each(Tail(s))

\* .replace(/[^a-z0-9]+/g, '-')
RECURSIVE ReplaceNonSlugRuns(_)
ReplaceNonSlugRuns(s) ==
  IF s = <<>> THEN <<>>
  ELSE IF IsSlugChar(Head(s)) THEN <<Head(s)>> \o ReplaceNonSlugRuns(Tail(s))
  ELSE <<"-">> \o ReplaceNonSlugRuns(DropNonSlug(Tail(s)))

\* .replace(/^-|-$/g, '')
TrimOneHyphen(s) ==
  LET s1 == IF s # <<>> /\ Head(s) = "-" THEN Tail(s) ELSE s
  IN IF s1 # <<>> /\ s1[Len(s1)] = "-" THEN SubSeq(s1, 1, Len(s1) - 1) ELSE s1

slugify(text) ==
  TrimOneHyphen(ReplaceNonSlugRuns([i \in 1..Len(text) |-> toLowerCase(text[i])]))

\* .replace(/\.(md|mdx)$/, '')
StripMdExt(name) ==
  IF EndsWith(name, <<".", "m", "d">>) THEN SubSeq(name, 1, Len(name) - 3)
  ELSE IF EndsWith(name, <<".", "m", "d", "x">>) THEN SubSeq(name, 1, Len(name) - 4)
  ELSE name

IsDashOrUnderscore(c) == c = "-" \/ c = "_"

RECURSIVE DropDashes(_)
DropDashes(s) ==
  IF s = <<>> \/ ~IsDashOrUnderscore(Head(s)) THEN s ELSE DropDashes(Tail(s))

\* a plausible slip: /[-_]/g, every hyphen and underscore becomes a blank
RECURSIVE ReplaceDashRuns_each(_)
ReplaceDashRuns_each(s) ==
  IF s = <<>> THEN <<>>
  ELSE IF IsDashOrUnderscore(Head(s)) THEN <<" ">> \o ReplaceDashRuns_each(Tail(s))
  ELSE <<Head(s)>> \o ReplaceDashRuns_each(Tail(s))

\* .replace(/[-_]+/g, ' ')
RECURSIVE ReplaceDashRuns(_)
ReplaceDashRuns(s) ==
  IF s = <<>> THEN <<>>
  ELSE IF IsDashOrUnderscore(Head(s)) THEN <<" ">> \o ReplaceDashRuns(DropDashes(Tail(s)))
  ELSE <<Head(s)>> \o ReplaceDashRuns(Tail(s))

\* .replace(/\b\w/g, char => char.toUpperCase())
CapitalizeWords(s) ==
  [i \in 1..Len(s) |->
     IF IsWordChar(s[i]) /\ (i = 1 \/ ~IsWordChar(s[i - 1]))
     THEN toUpperCase(s[i]) ELSE s[i]]

filenameToTitle(filename) == CapitalizeWords(ReplaceDashRuns(StripMdExt(filename)))

-----------------------------------------------------------------------------
(* Names, labels and keys used by the model *)

n_index_md == <<"i", "n", "d", "e", "x", ".", "m", "d">>
n_index_mdx == <<"i", "n", "d", "e", "x", ".", "m", "d", "x">>
n_a_md == <<"a", ".", "m", "d">>
n_guide == <<"g", "u", "i", "d", "e">>
n_x == <<"_", "x">>
n_logo_png == <<"l", "o", "g", "o", ".", "p", "n", "g">>
n_project == <<"p", "r", "o", "j", "e", "c", "t">>
n_docs == <<"d", "o", "c", "s">>

ext_md == <<".", "m", "d">>
ext_mdx == <<".", "m", "d", "x">>
ext_json == <<".", "j", "s", "o", "n">>

l_Guide == <<"G", "u", "i", "d", "e">>
l_API == <<"A", "P", "I", " ", "D", "o", "c", "s">>
l_Zeta == <<"Z", "e", "t", "a">>
l_apps == <<"a", "p", "p", "s">>
l_Introduction == <<"I", "n", "t", "r", "o", "d", "u", "c", "t", "i", "o", "n">>
l_index == <<"i", "n", "d", "e", "x">>

DRAFTS_GROUP == <<"D", "r", "a", "f", "t", "s">>

DEFAULT_EXCLUDES == << <<"_", "*">> >>

\* the components of sourceDir = '/project/docs'
sourceDir == <<n_project, n_docs>>

\* `null`, and every falsy string, is the empty string
Null == <<>>

EmptyTree == <<>>

-----------------------------------------------------------------------------
(* Frontmatter: an object is the sequence of its <<key, value>> entries in *)
(* insertion order (Object.entries)                                        *)

fmHas(fm, k) == \E i \in 1..Len(fm) : fm[i][1] = k

fmGet(fm, k) == fm[CHOOSE i \in 1..Len(fm) : fm[i][1] = k][2]

\* obj[k] = v
fmSet(fm, k, v) ==
  IF fmHas(fm, k)
  THEN [i \in 1..Len(fm) |-> IF fm[i][1] = k THEN <<k, v>> ELSE fm[i]]
  ELSE Append(fm, <<k, v>>)

\* delete obj[k]
RECURSIVE fmDelete(_, _)
fmDelete(fm, k) ==
  IF fm = <<>> THEN <<>>
  ELSE IF Head(fm)[1] = k THEN fmDelete(Tail(fm), k)
  ELSE <<Head(fm)>> \o fmDelete(Tail(fm), k)

\* obj[k] is truthy: present and not the empty string
fmTruthy(fm, k) == fmHas(fm, k) /\ fmGet(fm, k) # <<>>

RECURSIVE DropSpaces(_)
DropSpaces(s) == IF s # <<>> /\ Head(s) = " " THEN DropSpaces(Tail(s)) ELSE s

RECURSIVE DigitsValue(_, _, _)
DigitsValue(s, acc, seen) ==
  IF s # <<>> /\ IsDigit(Head(s))
  THEN DigitsValue(Tail(s), 10 * acc + (IndexIn(DigitChars, Head(s)) - 1), TRUE)
  ELSE [nan |-> ~seen, val |-> acc]

\* a plausible slip: the sign is read over but not applied
parseInt_unsigned(s) ==
  LET t == DropSpaces(s)
      u == IF t # <<>> /\ Head(t) \in {"-", "+"} THEN Tail(t) ELSE t
  IN DigitsValue(u, 0, FALSE)

\* parseInt(s, 10): leading blanks, a sign, the longest run of digits; NaN without digits
parseInt(s) ==
  LET t == DropSpaces(s)
      neg == t # <<>> /\ Head(t) = "-"
      u == IF t # <<>> /\ Head(t) \in {"-", "+"} THEN Tail(t) ELSE t
      d == DigitsValue(u, 0, FALSE)
  IN [nan |-> d.nan, val |-> IF neg THEN 0 - d.val ELSE d.val]

\* A value of a frontmatter object is a string or the nested object
\* { order }, which is marked as such (typeof value === 'object').
objectOf(order) == <<"object", [order |-> order]>>
IsObject(value) == value # <<>> /\ value[1] = "object"

\* a plausible slip: sidebar_position is mapped but not deleted
transformFrontmatter_keep(frontmatter) ==
  fmDelete(IF fmHas(frontmatter, "sidebar_position")
           THEN fmSet(frontmatter, "sidebar",
                      objectOf(parseInt(fmGet(frontmatter, "sidebar_position"))))
           ELSE frontmatter,
           "sidebar_group")

transformFrontmatter(frontmatter) ==
  LET positioned ==
        IF fmHas(frontmatter, "sidebar_position")
        THEN fmSet(fmDelete(frontmatter, "sidebar_position"), "sidebar",
                   objectOf(parseInt(fmGet(frontmatter, "sidebar_position"))))
        ELSE frontmatter
  IN fmDelete(positioned, "sidebar_group")

-----------------------------------------------------------------------------
(* parseFrontmatter and serializeFrontmatter, on the text of a file *)

Fence == <<"-", "-", "-">>

\* The keys of a frontmatter object are named by strings; these are the
\* characters of the keys that occur.
KeyTable ==
  <<
    <<"title", <<"t", "i", "t", "l", "e">>>>,
    <<"sidebar_group", <<"s", "i", "d", "e", "b", "a", "r", "_", "g", "r", "o", "u", "p">>>>,
    <<"sidebar_position",
      <<"s", "i", "d", "e", "b", "a", "r", "_", "p", "o", "s", "i", "t", "i", "o", "n">>>>,
    <<"sidebar", <<"s", "i", "d", "e", "b", "a", "r">>>>,
    <<"order", <<"o", "r", "d", "e", "r">>>>,
    <<"tags", <<"t", "a", "g", "s">>>>,
    <<"", <<>>>>
  >>

\* the key whose characters are `text`; "?" stands for any other key
keyName(text) ==
  IF \E i \in 1..Len(KeyTable) : KeyTable[i][2] = text
  THEN KeyTable[CHOOSE i \in 1..Len(KeyTable) : KeyTable[i][2] = text][1]
  ELSE "?"

keyText(key) ==
  IF \E i \in 1..Len(KeyTable) : KeyTable[i][1] = key
  THEN KeyTable[CHOOSE i \in 1..Len(KeyTable) : KeyTable[i][1] = key][2]
  ELSE <<"?">>

\* String.prototype.indexOf, counted from 1: 0 when c does not occur
indexOf(s, c) ==
  IF \E i \in 1..Len(s) : s[i] = c
  THEN CHOOSE i \in 1..Len(s) : s[i] = c /\ \A j \in 1..(i - 1) : s[j] # c
  ELSE 0

\* \s, as far as it occurs here
IsSpace(c) == c \in {" ", "\t", "\r", "\n"}

RECURSIVE trimStart(_)
trimStart(s) == IF s # <<>> /\ IsSpace(Head(s)) THEN trimStart(Tail(s)) ELSE s

RECURSIVE trimEnd(_)
trimEnd(s) ==
  IF s # <<>> /\ IsSpace(s[Len(s)]) THEN trimEnd(SubSeq(s, 1, Len(s) - 1)) ELSE s

trim(s) == trimEnd(trimStart(s))

\* String.prototype.split('\n')
RECURSIVE split(_)
splitAt(s, i) ==
  IF i = 0 THEN <<s>>
  ELSE <<SubSeq(s, 1, i - 1)>> \o split(SubSeq(s, i + 1, Len(s)))

split(s) == splitAt(s, indexOf(s, "\n"))

\* // Remove quotes
unquote(value) ==
  IF value # <<>> /\ \/ Head(value) = "\"" /\ value[Len(value)] = "\""
                     \/ Head(value) = "'" /\ value[Len(value)] = "'"
  THEN SubSeq(value, 2, Len(value) - 1)
  ELSE value

\* one line of the block; colon = indexOf(line, ":")
parseLine(fm, line, colon) ==
  IF colon > 1
  THEN fmSet(fm, keyName(trim(SubSeq(line, 1, colon - 1))),
             unquote(trim(SubSeq(line, colon + 1, Len(line)))))
  ELSE fm

RECURSIVE parseLines(_, _)
parseLines(fm, lines) ==
  IF lines = <<>> THEN fm
  ELSE parseLines(parseLine(fm, Head(lines), indexOf(Head(lines), ":")), Tail(lines))

\* the text after the first i characters of `content` begins with t
At(content, i, t) ==
  i + Len(t) <= Len(content) /\ SubSeq(content, i + 1, i + Len(t)) = t

\* the length of the /^---\r?\n/ that opens the content, 0 without one
openLen(content) ==
  IF At(content, 0, Fence \o <<"\n">>) THEN 4
  ELSE IF At(content, 0, Fence \o <<"\r", "\n">>) THEN 5
  ELSE 0

\* the length of the /\r?\n---/ after the first e characters, 0 without one
closeLen(content, e) ==
  IF At(content, e, <<"\n">> \o Fence) THEN 4
  ELSE IF At(content, e, <<"\r", "\n">> \o Fence) THEN 5
  ELSE 0

\* where the block ([\s\S]*?) may end
blockEnds(content, open) ==
  {e \in open..Len(content) : open > 0 /\ closeLen(content, e) > 0}

\* .replace(/^\r?\n/, '')
dropLineBreak(s) ==
  IF At(s, 0, <<"\n">>) THEN Tail(s)
  ELSE IF At(s, 0, <<"\r", "\n">>) THEN Tail(Tail(s))
  ELSE s

\* the match: the block is content[open+1 .. e], the shortest there is
parseMatch(content, open, e) ==
  [frontmatter |-> parseLines(<<>>, split(SubSeq(content, open + 1, e))),
   body |-> dropLineBreak(SubSeq(content, e + closeLen(content, e) + 1, Len(content)))]

parseBlock(content, open, ends) ==
  IF ends = {} THEN [frontmatter |-> <<>>, body |-> content]
  ELSE parseMatch(content, open, CHOOSE e \in ends : \A f \in ends : e <= f)

parseFrontmatter(content) ==
  parseBlock(content, openLen(content), blockEnds(content, openLen(content)))

\* the decimal digits of a natural number
RECURSIVE digitsOf(_)
digitsOf(n) ==
  IF n < 10 THEN <<DigitChars[n + 1]>>
  ELSE Append(digitsOf(n \div 10), DigitChars[(n % 10) + 1])

\* `${subValue}` of a number: order is what parseInt returned
numberText(order) ==
  IF order.nan THEN <<"N", "a", "N">>
  ELSE IF order.val < 0 THEN <<"-">> \o digitsOf(0 - order.val)
  ELSE digitsOf(order.val)

\* value.includes(':') || value.includes('#') || value.includes("'")
needsQuotes(value) == \E i \in 1..Len(value) : value[i] \in {":", "#", "'"}

\* value.replace(/"/g, '\\"')
RECURSIVE escapeQuotes(_)
escapeQuotes(value) ==
  IF value = <<>> THEN <<>>
  ELSE IF Head(value) = "\"" THEN <<"\\", "\"">> \o escapeQuotes(Tail(value))
  ELSE <<Head(value)>> \o escapeQuotes(Tail(value))

\* the lines pushed for one entry
entryLines(key, value) ==
  IF IsObject(value)
  THEN <<keyText(key) \o <<":">>,
         <<" ", " ", "o", "r", "d", "e", "r", ":", " ">> \o numberText(value[2].order)>>
  ELSE IF needsQuotes(value)
  THEN <<keyText(key) \o <<":", " ", "\"">> \o escapeQuotes(value) \o <<"\"">>>>
  ELSE <<keyText(key) \o <<":", " ">> \o value>>

RECURSIVE allLines(_)
allLines(fm) ==
  IF fm = <<>> THEN <<>>
  ELSE entryLines(Head(fm)[1], Head(fm)[2]) \o allLines(Tail(fm))

\* lines.join('\n')
RECURSIVE joinLines(_)
joinLines(lines) ==
  IF lines = <<>> THEN <<>>
  ELSE IF Len(lines) = 1 THEN Head(lines)
  ELSE Head(lines) \o <<"\n">> \o joinLines(Tail(lines))

serializeFrontmatter(fm) == joinLines(<<Fence>> \o allLines(fm) \o <<Fence>>)

-----------------------------------------------------------------------------
(* Configuration and the pattern matcher *)

\* docs.json: absent, not JSON, or an object whose fields are arrays or not
JsonMissing == [type |-> "missing", items |-> <<>>]
JsonArray(items) == [type |-> "array", items |-> items]

\* a field that is a string, a number or an object, not an array
JsonOther == [type |-> "other", items |-> <<>>]

\* a number as an element of an array: it is not a string
JsonNumber == <<"number">>
IsString(item) == item = <<>> \/ item[1] # "number"

loadConfig(file) ==
  IF file.kind = "object"
  THEN [exclude |-> IF file.exclude.type = "array" THEN file.exclude.items
                    ELSE DEFAULT_EXCLUDES,
        group_order |-> IF file.group_order.type = "array" THEN file.group_order.items
                        ELSE <<>>]
  ELSE [exclude |-> DEFAULT_EXCLUDES, group_order |-> <<>>]

\* a plausible slip: the prefix form is tried before the suffix form
matchesPattern_prefixFirst(name, pattern) ==
  IF pattern # <<>> /\ pattern[Len(pattern)] = "*" /\ Len(pattern) > 1
  THEN StartsWith(name, SubSeq(pattern, 1, Len(pattern) - 1))
  ELSE IF pattern # <<>> /\ Head(pattern) = "*" /\ Len(pattern) > 1
  THEN EndsWith(name, Tail(pattern))
  ELSE IF pattern = <<"*">> THEN TRUE
  ELSE name = pattern

matchesPattern(name, pattern) ==
  IF pattern # <<>> /\ Head(pattern) = "*" /\ Len(pattern) > 1
  THEN EndsWith(name, Tail(pattern))
  ELSE IF pattern # <<>> /\ pattern[Len(pattern)] = "*" /\ Len(pattern) > 1
  THEN StartsWith(name, SubSeq(pattern, 1, Len(pattern) - 1))
  ELSE IF pattern = <<"*">> THEN TRUE
  ELSE name = pattern

\* pattern.startsWith is not a function: `some` raises a TypeError when it
\* comes to a pattern that is not a string before a pattern has matched
shouldExcludeThrows(name, excludes) ==
  \E i \in 1..Len(excludes) :
    /\ ~IsString(excludes[i])
    /\ \A j \in 1..(i - 1) : IsString(excludes[j]) /\ ~matchesPattern(name, excludes[j])

\* a plausible slip: the exclusion test is never true
shouldExclude_never(name, excludes) == FALSE

shouldExclude(name, excludes) ==
  \E i \in 1..Len(excludes) : matchesPattern(name, excludes[i])

-----------------------------------------------------------------------------
(* The file system *)

\* A markdown file is modelled by what parseFrontmatter reads from it (its
\* frontmatter entries and its body), any other file by its bytes.
MdFile(fm, body) == [kind |-> "md", fm |-> fm, body |-> body]
RawFile(bytes) == [kind |-> "raw", bytes |-> bytes]

basename(path) == path[Len(path)]

\* path.join of a directory and one name: an empty name adds nothing
join(dir, name) == IF name = <<>> THEN dir ELSE Append(dir, name)

\* path.extname of a file name
extname(name) ==
  LET dots == {i \in 1..Len(name) : name[i] = "."}
  IN IF dots = {} THEN <<>>
     ELSE LET lastDot == CHOOSE i \in dots : \A j \in dots : j <= i
          IN IF lastDot = 1 THEN <<>> ELSE SubSeq(name, lastDot, Len(name))

IsUnder(dir, path) == Len(dir) < Len(path) /\ SubSeq(path, 1, Len(dir)) = dir

\* statSync(path).isDirectory()
isDirectory(fs, path) == \E p \in DOMAIN fs : IsUnder(path, p)

writeFileSync(tree, path, file) == (path :> file) @@ tree

RemovePaths(fs, gone) ==
  IF DOMAIN fs \subseteq gone THEN EmptyTree
  ELSE [p \in DOMAIN fs \ gone |-> fs[p]]

\* the first of the names in ascending (or descending) order
FirstName(names, ascending) ==
  CHOOSE n \in names :
    \A m \in names \ {n} : IF ascending THEN StrLess(n, m) ELSE StrLess(m, n)

RECURSIVE SortNames(_, _)
RECURSIVE SortFrom(_, _, _)

SortFrom(first, names, ascending) ==
  <<first>> \o SortNames(names \ {first}, ascending)

SortNames(names, ascending) ==
  IF names = {} THEN <<>>
  ELSE SortFrom(FirstName(names, ascending), names, ascending)

\* readdirSync(dir): the names in dir, in the order this file system lists them
readdirSync(fs, dir) ==
  SortNames({p[Len(dir) + 1] : p \in {q \in DOMAIN fs : IsUnder(dir, q)}},
            readdirOrder = "ascending")

-----------------------------------------------------------------------------
(* processMarkdownFile, copyFile, syncDirectory *)

isIndexName(filename) == filename = n_index_md \/ filename = n_index_mdx

\* if (!frontmatter.title) frontmatter.title = filenameToTitle(filename)
withTitle(frontmatter, filename) ==
  IF ~fmTruthy(frontmatter, "title")
  THEN fmSet(frontmatter, "title", filenameToTitle(filename))
  ELSE frontmatter

\* if (!frontmatter.sidebar_group && !isIndex) frontmatter.sidebar_group = DRAFTS_GROUP
withGroup(frontmatter, filename) ==
  IF ~fmTruthy(frontmatter, "sidebar_group") /\ ~isIndexName(filename)
  THEN fmSet(frontmatter, "sidebar_group", DRAFTS_GROUP)
  ELSE frontmatter

\* group = frontmatter.sidebar_group, when it is truthy
groupOf(frontmatter) ==
  IF fmTruthy(frontmatter, "sidebar_group")
  THEN fmGet(frontmatter, "sidebar_group") ELSE Null

\* targetDir, relative to destDir
targetDirOf(group) == IF group # Null THEN join(<<>>, slugify(group)) ELSE <<>>

\* Destination files keep the source path they were made from (`origin`),
\* which the program does not store: it is what "derived from" refers to.
writeMarkdown(srcPath, group, destPath, newContent, tree) ==
  [group |-> group,
   destPath |-> destPath,
   tree |-> writeFileSync(tree, destPath, [origin |-> srcPath, content |-> newContent])]

\* processMarkdownFile from `// Determine destination directory` on
placeMarkdown(srcPath, frontmatter, body, group, tree) ==
  writeMarkdown(srcPath, group, join(targetDirOf(group), basename(srcPath)),
                MdFile(transformFrontmatter(frontmatter), body), tree)

classifyMarkdown(srcPath, frontmatter, body, tree) ==
  placeMarkdown(srcPath, frontmatter, body, groupOf(frontmatter), tree)

processMarkdownFile(fs, srcPath, tree) ==
  classifyMarkdown(srcPath,
                   withGroup(withTitle(fs[srcPath].fm, basename(srcPath)),
                             basename(srcPath)),
                   fs[srcPath].body, tree)

\* a plausible slip: the directory of the file is lost on the way
copyFile_flat(fs, srcPath, tree, destPath) ==
  writeFileSync(tree, <<basename(destPath)>>, [origin |-> srcPath, content |-> fs[srcPath]])

\* copyFile(srcPath, destPath): the bytes read are the bytes written
copyFile(fs, srcPath, tree, destPath) ==
  writeFileSync(tree, destPath, [origin |-> srcPath, content |-> fs[srcPath]])

\* if (result.group) groups.add(result.group)
addGroup(result, groups) ==
  [tree |-> result.tree,
   groups |-> IF result.group # Null THEN groups \cup {result.group} ELSE groups]

RECURSIVE syncDirectory(_, _, _, _)
RECURSIVE syncEntries(_, _, _, _, _)
RECURSIVE syncEntry(_, _, _, _, _)

\* a plausible slip: the test for .json is left out of the last branch
syncEntry_copyJson(fs, srcPath, entry, excludes, st) ==
  IF shouldExclude(entry, excludes) THEN st
  ELSE IF isDirectory(fs, srcPath)
  THEN syncDirectory(fs, srcPath, excludes, st)
  ELSE IF EndsWith(entry, ext_md) \/ EndsWith(entry, ext_mdx)
  THEN addGroup(processMarkdownFile(fs, srcPath, st.tree), st.groups)
  ELSE [tree |-> copyFile(fs, srcPath, st.tree, srcPath), groups |-> st.groups]

\* the body of the loop of syncDirectory; st = [tree, groups]
syncEntry(fs, srcPath, entry, excludes, st) ==
  IF shouldExclude(entry, excludes) THEN st
  ELSE IF isDirectory(fs, srcPath)
  THEN syncDirectory(fs, srcPath, excludes, st)
  ELSE IF EndsWith(entry, ext_md) \/ EndsWith(entry, ext_mdx)
  THEN addGroup(processMarkdownFile(fs, srcPath, st.tree), st.groups)
  ELSE IF ~EndsWith(entry, ext_json)
  THEN [tree |-> copyFile(fs, srcPath, st.tree, srcPath), groups |-> st.groups]
  ELSE st

\* the loop of syncDirectory over `entries`
syncEntries(fs, dir, entries, excludes, st) ==
  IF entries = <<>> THEN st
  ELSE syncEntries(fs, dir, Tail(entries), excludes,
                   syncEntry(fs, Append(dir, Head(entries)), Head(entries),
                             excludes, st))

\* dir is the directory relative to sourceDir (the code's relativePath)
syncDirectory(fs, dir, excludes, st) ==
  syncEntries(fs, dir, readdirSync(fs, dir), excludes, st)

-----------------------------------------------------------------------------
(* generateSidebarConfig *)

\* one step of the loop over groupOrder; st = [ordered, groupSet]
addIfPresent(group, st) ==
  IF group \in st.groupSet
  THEN [ordered |-> Append(st.ordered, group), groupSet |-> st.groupSet \ {group}]
  ELSE st

\* a plausible slip: groupSet.delete(group) forgotten
RECURSIVE addConfigured_nodelete(_, _)
addConfigured_nodelete(groupOrder, st) ==
  IF groupOrder = <<>> THEN st
  ELSE addConfigured_nodelete(Tail(groupOrder),
         IF Head(groupOrder) \in st.groupSet
         THEN [ordered |-> Append(st.ordered, Head(groupOrder)), groupSet |-> st.groupSet]
         ELSE st)

\* the loop over groupOrder
RECURSIVE addConfigured(_, _)
addConfigured(groupOrder, st) ==
  IF groupOrder = <<>> THEN st
  ELSE addConfigured(Tail(groupOrder), addIfPresent(Head(groupOrder), st))

IntroductionEntry == [label |-> l_Introduction, slug |-> l_index]

\* The manifest is the sequence of the entries of `sidebar`.
sidebarOf(orderedGroups) ==
  <<IntroductionEntry>> \o
  [i \in 1..Len(orderedGroups) |->
     [label |-> orderedGroups[i], directory |-> slugify(orderedGroups[i])]]

\* orderedGroups.push(...Array.from(groupSet).sort())
withRemaining(listed) == listed.ordered \o SortNames(listed.groupSet, TRUE)

generateSidebarConfig(groups, groupOrder) ==
  sidebarOf(withRemaining(addConfigured(groupOrder,
                                        [ordered |-> <<>>, groupSet |-> groups])))

-----------------------------------------------------------------------------
(* initialSync *)

\* a plausible slip: the destination is not cleaned
rmSync_keep(tree) == tree

\* rmSync(destDir, { recursive: true, force: true }); ensureDir(destDir)
rmSync(tree) == EmptyTree

\* what initialSync leaves: the tree, the groups found, the sidebar written
syncOutcome(synced, groupOrder) ==
  [dest |-> synced.tree,
   groups |-> synced.groups,
   manifest |-> generateSidebarConfig(synced.groups, groupOrder)]

syncWith(fs, cfg, tree) ==
  syncOutcome(syncDirectory(fs, <<>>, cfg.exclude,
                            [tree |-> rmSync(tree), groups |-> {}]),
              cfg.group_order)

\* a plausible slip: the branches of the clean-up are mixed up, and a
\* destination that exists is removed without being synced again
initialSync_toggle(fs, file, tree) ==
  IF tree # EmptyTree
  THEN syncWith(EmptyTree, loadConfig(file), tree)
  ELSE syncWith(fs, loadConfig(file), tree)

initialSync(fs, file, tree) == syncWith(fs, loadConfig(file), tree)

-----------------------------------------------------------------------------
(* watchAndSync: ignore patterns, collectGroups, handleFileChange *)

\* ignorePatterns[i].test(text) for the regular expression built from one
\* exclude pattern; text is an absolute path, given by its components.
\* Patterns hold no regular expression metacharacter besides the outer "*".
ignorePatternTest(pattern, text) ==
  IF pattern # <<>> /\ pattern[Len(pattern)] = "*"
  THEN StartsWith(basename(text), SubSeq(pattern, 1, Len(pattern) - 1))
  ELSE IF pattern # <<>> /\ Head(pattern) = "*"
  THEN EndsWith(basename(text), Tail(pattern))
  ELSE pattern = <<>> \/ \E i \in 1..Len(text) : text[i] = pattern

\* /(^|[\/\\])\../.test(text)
dotfileTest(text) ==
  \E i \in 1..Len(text) : Len(text[i]) > 1 /\ Head(text[i]) = "."

\* chokidar applies `ignored` to the watched directory and to every path
\* below it, and does not descend into an ignored directory.
watcherIgnores(excludes, path) ==
  LET full == sourceDir \o path
  IN \E k \in Len(sourceDir)..Len(full) :
       LET text == SubSeq(full, 1, k)
       IN \/ dotfileTest(text)
          \/ \E i \in 1..Len(excludes) : ignorePatternTest(excludes[i], text)

RECURSIVE collectGroups(_, _, _)
RECURSIVE collectEntries(_, _, _, _)
RECURSIVE collectEntry(_, _, _, _)

\* the body of the loop of collectGroups
collectEntry(fs, path, entry, known) ==
  IF isDirectory(fs, path) THEN collectGroups(fs, path, known)
  ELSE IF EndsWith(entry, ext_md) \/ EndsWith(entry, ext_mdx)
  THEN IF fmTruthy(fs[path].fm, "sidebar_group")
       THEN known \cup {fmGet(fs[path].fm, "sidebar_group")}
       ELSE IF ~isIndexName(entry) THEN known \cup {DRAFTS_GROUP}
       ELSE known
  ELSE known

collectEntries(fs, dir, entries, known) ==
  IF entries = <<>> THEN known
  ELSE collectEntries(fs, dir, Tail(entries),
                      collectEntry(fs, Append(dir, Head(entries)), Head(entries), known))

collectGroups(fs, dir, known) ==
  collectEntries(fs, dir, readdirSync(fs, dir), known)

\* what a handler leaves: st = [dest, knownGroups, manifest], with the group
\* of the file handled and whether that group was new
Handled(tree, known, sidebar, group, isNew) ==
  [dest |-> tree, knownGroups |-> known, manifest |-> sidebar,
   group |-> group, isNew |-> isNew]

\* knownGroups.add(result.group) and the sidebar written anew
regenerate(tree, known, group, cfg) ==
  Handled(tree, known, generateSidebarConfig(known, cfg.group_order), group, TRUE)

\* a plausible slip: a new group is recorded but the sidebar is not rewritten
afterMarkdown_stale(result, cfg, st) ==
  IF result.group # Null /\ result.group \notin st.knownGroups
  THEN Handled(result.tree, st.knownGroups \cup {result.group}, st.manifest,
               result.group, TRUE)
  ELSE Handled(result.tree, st.knownGroups, st.manifest, result.group, FALSE)

\* the markdown branch of handleFileChange
afterMarkdown(result, cfg, st) ==
  IF result.group # Null /\ result.group \notin st.knownGroups
  THEN regenerate(result.tree, st.knownGroups \cup {result.group}, result.group, cfg)
  ELSE Handled(result.tree, st.knownGroups, st.manifest, result.group, FALSE)

byExtension(ext, fs, srcPath, cfg, st) ==
  IF ext = ext_md \/ ext = ext_mdx
  THEN afterMarkdown(processMarkdownFile(fs, srcPath, st.dest), cfg, st)
  ELSE IF ext # ext_json
  THEN Handled(copyFile(fs, srcPath, st.dest, srcPath), st.knownGroups, st.manifest,
               Null, FALSE)
  ELSE Handled(st.dest, st.knownGroups, st.manifest, Null, FALSE)

\* st = [dest, knownGroups, manifest]; cfg is the watcher's config
handleFileChange(fs, srcPath, cfg, st) ==
  byExtension(extname(basename(srcPath)), fs, srcPath, cfg, st)

-----------------------------------------------------------------------------
(* The source trees, file contents and configurations explored *)

n_docs_json == <<"d", "o", "c", "s", ".", "j", "s", "o", "n">>

MdPaths == {<<n_index_md>>, <<n_a_md>>, <<n_guide, n_index_md>>, <<n_x, n_a_md>>}
RawPaths == {<<n_guide, n_logo_png>>}
Paths == MdPaths \cup RawPaths
Dirs == {<<n_guide>>, <<n_x>>}

PlainDoc == MdFile(<<>>, 1)
GroupedDoc == MdFile(<< <<"title", <<"T">>>>, <<"sidebar_group", l_Guide>>,
                        <<"sidebar_position", <<"2">>>> >>, 2)
MdContents == {PlainDoc, GroupedDoc}
RawContents == {RawFile(1)}

\* the document under _x is always a grouped one
ContentsOf(path) == IF path = <<n_x, n_a_md>> THEN {GroupedDoc}
                    ELSE IF path \in MdPaths THEN MdContents ELSE RawContents

ConfigFiles ==
  {[kind |-> "absent", exclude |-> JsonMissing, group_order |-> JsonMissing],
   [kind |-> "object", exclude |-> JsonArray(<<n_guide>>),
    group_order |-> JsonArray(<<l_Guide, l_Zeta>>)]}

RECURSIVE TreesOver(_, _)
TreesOver(paths, n) ==
  IF n = 0 \/ paths = {} THEN {EmptyTree}
  ELSE LET p == CHOOSE q \in paths : TRUE
           rest == TreesOver(paths \ {p}, n)
           fewer == TreesOver(paths \ {p}, n - 1)
       IN rest \cup {(p :> c) @@ t : c \in ContentsOf(p), t \in fewer}

-----------------------------------------------------------------------------
(* The program and its environment *)

DefaultConfig == [exclude |-> DEFAULT_EXCLUDES, group_order |-> <<>>]

NoInput == [kind |-> "none"]
NoOutput == [done |-> FALSE]

\* The calls a handler makes are the ones imported from 'fs': existsSync,
\* readFileSync, writeFileSync, mkdirSync, rmSync, readdirSync, statSync.
\* Each returns its result to the caller; none hands control back to the
\* event loop (no handler holds an await).
SyncCalls == {"existsSync", "readFileSync", "writeFileSync", "mkdirSync", "rmSync",
              "readdirSync", "statSync"}

\* a plausible slip: the write is awaited (fs.promises.writeFile)
returnsToEventLoop_writes(call) == call = "writeFileSync"

returnsToEventLoop(call) == call \notin SyncCalls

\* an activation: the event handled, the call it makes next, whether it
\* waits for the event loop to resume it, and its local variables
Activation(event, at, waiting, locals) ==
  [event |-> event, at |-> at, waiting |-> waiting, locals |-> locals]

\* the event loop starts a callback only when no JavaScript is executing
callStackEmpty(activations) ==
  \A i \in DOMAIN activations : activations[i].waiting

\* activation i executes: it is the one on the call stack, or the event loop
\* resumes it while nothing else executes
Executing(activations, i) ==
  \A j \in DOMAIN activations : j # i => activations[j].waiting

Trail(st, f) == [st |-> st, f |-> f]
Did(op, path, group, isNew) == [op |-> op, path |-> path, group |-> group, isNew |-> isNew]

Init ==
  /\ src \in TreesOver(Paths, MaxFiles)
  /\ docsJson \in ConfigFiles
  /\ readdirOrder \in {"ascending", "descending"}
  /\ dest = EmptyTree
  /\ manifest = <<>>
  /\ foundGroups = {}
  /\ phase = "idle"
  /\ config = DefaultConfig
  /\ knownGroups = {}
  /\ queue = <<>>
  /\ edits = 0
  /\ trail = Trail("dirty", <<>>)
  /\ last = Did("none", <<>>, Null, FALSE)
  /\ fnIn = NoInput
  /\ fnOut = NoOutput
  /\ running = <<>>

\* trail.st = "S", "SS", "SAS": dest and manifest are the result of a full sync
\* of the present source tree and docs.json, and nothing happened since.
\* "Sa": then the file trail.f was added; "SA": and its add event was
\* handled; "SAu": and then something was deleted; "dirty": anything else.
\* last.op = "sync", "add", "change", "unlink", "unlinkDir", "throw": what the
\* program did last (the path, the group of the file and whether the group
\* was new to knownGroups); "edit" once the user has edited the tree.
Synced == {"S", "SS", "SAS"}

\* chokidar emits the event unless the path is ignored
Watched(path) == phase = "watching" /\ ~watcherIgnores(config.exclude, path)

\* every edit emits one event at most: Len(queue) <= edits
Emit(kind, path) ==
  queue' = IF Watched(path) THEN Append(queue, [kind |-> kind, path |-> path])
           ELSE queue

Edit ==
  /\ edits < MaxEdits
  /\ edits' = edits + 1
  /\ last' = Did("edit", <<>>, Null, FALSE)
  /\ UNCHANGED <<dest, manifest, foundGroups, phase, config, knownGroups,
                 readdirOrder, fnIn, fnOut, running>>

\* the user creates a file in the source tree
AddFile(path, content) ==
  /\ Edit
  /\ path \notin DOMAIN src
  /\ Cardinality(DOMAIN src) < MaxFiles
  /\ src' = (path :> content) @@ src
  /\ Emit("add", path)
  /\ trail' = IF trail.st \in Synced /\ Watched(path)
               THEN Trail("Sa", path) ELSE Trail("dirty", <<>>)
  /\ UNCHANGED docsJson

\* the user rewrites a file of the source tree
ChangeFile(path, content) ==
  /\ Edit
  /\ path \in DOMAIN src
  /\ content # src[path]
  /\ src' = [src EXCEPT ![path] = content]
  /\ Emit("change", path)
  /\ trail' = Trail("dirty", <<>>)
  /\ UNCHANGED docsJson

\* the user deletes a file of the source tree
UnlinkFile(path) ==
  /\ Edit
  /\ path \in DOMAIN src
  /\ src' = RemovePaths(src, {path})
  /\ Emit("unlink", path)
  /\ trail' = IF trail.st = "SA" /\ Watched(path)
               THEN Trail("SAu", trail.f) ELSE Trail("dirty", <<>>)
  /\ UNCHANGED docsJson

\* the user deletes a directory of the source tree with all it holds (the
\* unlink events of its files run the same handler as its unlinkDir event)
UnlinkDir(dir) ==
  /\ Edit
  /\ isDirectory(src, dir)
  /\ src' = RemovePaths(src, {p \in DOMAIN src : IsUnder(dir, p)})
  /\ Emit("unlinkDir", dir)
  /\ trail' = IF trail.st = "SA" /\ Watched(dir)
               THEN Trail("SAu", trail.f) ELSE Trail("dirty", <<>>)
  /\ UNCHANGED docsJson

\* the user rewrites docs.json, a file of the source tree
EditConfig(file) ==
  /\ Edit
  /\ file # docsJson
  /\ docsJson' = file
  /\ Emit("change", <<n_docs_json>>)
  /\ trail' = Trail("dirty", <<>>)
  /\ UNCHANGED src

SyncTrail == IF trail.st \in {"SA", "SAu"} THEN Trail("SAS", trail.f)
             ELSE IF trail.st \in Synced THEN Trail("SS", <<>>)
             ELSE Trail("S", <<>>)

\* the files initialSync writes, and what it logs
Synchronized(r) ==
  /\ dest' = r.dest
  /\ manifest' = r.manifest
  /\ foundGroups' = r.groups

\* node sync-docs.mjs [--watch]: initialSync(), then watchAndSync() is
\* called and waits for its import of chokidar
Main(watch) ==
  /\ phase \in {"idle", "crashed"}
  /\ Synchronized(initialSync(src, docsJson, dest))
  /\ phase' = IF watch THEN "starting" ELSE "idle"
  /\ trail' = SyncTrail
  /\ last' = Did("sync", <<>>, Null, FALSE)
  /\ UNCHANGED <<src, docsJson, config, knownGroups, queue, readdirOrder,
                 edits, fnIn, fnOut, running>>

\* watchAndSync after the import: loadConfig, chokidar.watch, collectGroups
WatchStart ==
  /\ phase = "starting"
  /\ config' = loadConfig(docsJson)
  /\ knownGroups' = collectGroups(src, <<>>, {})
  /\ phase' = "watching"
  /\ UNCHANGED <<src, docsJson, dest, manifest, foundGroups, queue,
                 readdirOrder, edits, trail, last, fnIn, fnOut, running>>

\* the file of an add or change event can be read (a .json file is not read)
Readable(path) ==
  extname(basename(path)) = ext_json
  \/ (path \in DOMAIN src /\ ~isDirectory(src, path))

\* what handleFileChange leaves, and the history of it
Changed(kind, path, r) ==
  /\ dest' = r.dest
  /\ knownGroups' = r.knownGroups
  /\ manifest' = r.manifest
  /\ last' = Did(kind, path, r.group, r.isNew)

\* watcher.on('add') and watcher.on('change')
OnAddOrChange ==
  /\ phase = "watching"
  /\ queue # <<>>
  /\ Head(queue).kind \in {"add", "change"}
  /\ Readable(Head(queue).path)
  /\ Changed(Head(queue).kind, Head(queue).path,
             handleFileChange(src, Head(queue).path, config,
               [dest |-> dest, knownGroups |-> knownGroups, manifest |-> manifest]))
  /\ queue' = Tail(queue)
  /\ trail' = IF trail.st = "Sa" /\ Head(queue) = [kind |-> "add", path |-> trail.f]
               THEN Trail("SA", trail.f) ELSE Trail("dirty", <<>>)
  /\ UNCHANGED <<src, docsJson, foundGroups, phase, config, readdirOrder,
                 edits, fnIn, fnOut, running>>

\* the same handlers when the file is gone again: readFileSync throws in the
\* listener, nothing catches it, and the process ends
OnAddOrChangeThrows ==
  /\ phase = "watching"
  /\ queue # <<>>
  /\ Head(queue).kind \in {"add", "change"}
  /\ ~Readable(Head(queue).path)
  /\ phase' = "crashed"
  /\ queue' = <<>>
  /\ config' = DefaultConfig
  /\ knownGroups' = {}
  /\ trail' = Trail("dirty", <<>>)
  /\ last' = Did("throw", Head(queue).path, Null, FALSE)
  /\ UNCHANGED <<src, docsJson, dest, manifest, foundGroups, readdirOrder,
                 edits, fnIn, fnOut, running>>

\* watcher.on('unlink') and watcher.on('unlinkDir')
OnUnlink ==
  /\ phase = "watching"
  /\ queue # <<>>
  /\ Head(queue).kind \in {"unlink", "unlinkDir"}
  /\ Synchronized(initialSync(src, docsJson, dest))
  /\ queue' = Tail(queue)
  /\ trail' = SyncTrail
  /\ last' = Did(Head(queue).kind, Head(queue).path, Null, FALSE)
  /\ UNCHANGED <<src, docsJson, phase, config, knownGroups, readdirOrder,
                 edits, fnIn, fnOut, running>>

\* process.on('SIGINT')
Sigint ==
  /\ phase \in {"starting", "watching"}
  /\ callStackEmpty(running)
  /\ phase' = "idle"
  /\ queue' = <<>>
  /\ config' = DefaultConfig
  /\ knownGroups' = {}
  /\ running' = <<>>
  /\ UNCHANGED <<src, docsJson, dest, manifest, foundGroups, readdirOrder,
                 edits, trail, last, fnIn, fnOut>>

Next ==
  \/ \E path \in Paths : \E content \in ContentsOf(path) : AddFile(path, content)
  \/ \E path \in Paths : \E content \in ContentsOf(path) : ChangeFile(path, content)
  \/ \E path \in Paths : UnlinkFile(path)
  \/ \E dir \in Dirs : UnlinkDir(dir)
  \/ \E file \in ConfigFiles : EditConfig(file)
  \/ \E watch \in BOOLEAN : Main(watch)
  \/ WatchStart
  \/ OnAddOrChange
  \/ OnAddOrChangeThrows
  \/ OnUnlink
  \/ Sigint

Spec == Init /\ [][Next]_vars

-----------------------------------------------------------------------------
(* The pure functions, applied to inputs drawn from bounded sets *)

LabelChars == {"A", "b", "1", " ", "-", "!"}

FnPaths == {<<n_a_md>>, <<n_guide, n_a_md>>, <<n_index_md>>, <<n_guide, n_index_md>>}

GroupPool == {l_Guide, l_API, l_apps, DRAFTS_GROUP}
OrderPool == {l_Guide, l_Zeta, l_apps, DRAFTS_GROUP}

FnInputs ==
  {[kind |-> "md", path |-> path, fm |-> fm] :
     path \in FnPaths,
     fm \in {<<>>} \cup {<< <<"sidebar_group", l>> >> :
                           l \in StringsUpTo(LabelChars, MaxLabelLen)}}
  \cup
  {[kind |-> "sidebar", groups |-> groups, order |-> order] :
     groups \in SUBSET GroupPool, order \in StringsUpTo(OrderPool, MaxOrderLen)}

FnInit ==
  /\ src = EmptyTree
  /\ docsJson = [kind |-> "absent", exclude |-> JsonMissing, group_order |-> JsonMissing]
  /\ readdirOrder = "ascending"
  /\ dest = EmptyTree
  /\ manifest = <<>>
  /\ foundGroups = {}
  /\ phase = "idle"
  /\ config = DefaultConfig
  /\ knownGroups = {}
  /\ queue = <<>>
  /\ edits = 0
  /\ trail = Trail("dirty", <<>>)
  /\ last = Did("none", <<>>, Null, FALSE)
  /\ fnIn \in FnInputs
  /\ fnOut = NoOutput
  /\ running = <<>>

FnFrame == UNCHANGED <<src, docsJson, dest, manifest, foundGroups, phase, config,
                       knownGroups, queue, readdirOrder, edits, trail, last, fnIn,
                       running>>

ApplyProcessMarkdownFile ==
  /\ fnIn.kind = "md"
  /\ ~fnOut.done
  /\ fnOut' = [done |-> TRUE,
               value |-> processMarkdownFile((fnIn.path :> MdFile(fnIn.fm, 1)),
                                             fnIn.path, EmptyTree)]
  /\ FnFrame

ApplyGenerateSidebarConfig ==
  /\ fnIn.kind = "sidebar"
  /\ ~fnOut.done
  /\ fnOut' = [done |-> TRUE,
               value |-> generateSidebarConfig(fnIn.groups, fnIn.order)]
  /\ FnFrame

FnNext == ApplyProcessMarkdownFile \/ ApplyGenerateSidebarConfig

SpecFn == FnInit /\ [][FnNext]_vars

-----------------------------------------------------------------------------
(* The pattern matcher, the configuration loader and the frontmatter     *)
(* functions, applied to inputs drawn from bounded sets                  *)

PatternChars == {"*", "a", "b"}

MatchInputs ==
  {[kind |-> "match", name |-> name, pattern |-> pattern] :
     name \in StringsUpTo(PatternChars, MaxPatternLen),
     pattern \in StringsUpTo(PatternChars, MaxPatternLen)}

\* the text of a frontmatter line `key: value`
LineOf(key, value) == keyText(key) \o <<":", " ">> \o value

\* the text of a file: the lines of its frontmatter block, then its body
ContentOf(lines, body) == joinLines(<<Fence>> \o lines \o <<Fence>>) \o <<"\n">> \o body

ValueChars == {"a", "3", "-", ":", "#", "'", "\""}
DocKeys == {"title", "sidebar_position", "sidebar_group", "tags"}
MoreLines ==
  {<<>>, <<LineOf("sidebar", <<"x">>)>>, <<LineOf("title", <<"T">>)>>}
NameChars == {"a", "b", "3", "-", "_", "."}
TitleLines == {<<>>, <<LineOf("title", <<>>)>>, <<LineOf("title", <<"T">>)>>}
BodyText == <<"B">>

\* documents with one line whose value varies, and documents whose name varies
DocInputs ==
  {[kind |-> "doc", path |-> path, content |-> ContentOf(<<LineOf(key, value)>> \o more, BodyText)] :
     path \in {<<n_a_md>>, <<n_index_md>>},
     key \in DocKeys,
     value \in StringsUpTo(ValueChars, MaxValueLen),
     more \in MoreLines}
  \cup
  {[kind |-> "doc", path |-> <<name \o ext>>,
    content |-> IF lines = <<>> THEN BodyText ELSE ContentOf(lines, BodyText)] :
     name \in StringsUpTo(NameChars, MaxNameLen),
     ext \in {ext_md, ext_mdx},
     lines \in TitleLines}

\* docs.json: absent, not JSON, the JSON null, or an object whose fields are
\* missing, of another type than array, or arrays of strings or of numbers
AnyConfigFiles ==
  {[kind |-> k, exclude |-> JsonMissing, group_order |-> JsonMissing] :
     k \in {"absent", "invalid", "null"}}
  \cup
  {[kind |-> "object", exclude |-> e, group_order |-> g] :
     e \in {JsonMissing, JsonOther, JsonArray(<<>>), JsonArray(<<n_guide>>),
            JsonArray(<<JsonNumber>>), JsonArray(<<n_guide, JsonNumber>>)},
     g \in {JsonMissing, JsonOther, JsonArray(<<l_Guide, l_Zeta>>),
            JsonArray(<<JsonNumber>>)}}

ConfigPaths == {<<n_a_md>>, <<n_guide, n_index_md>>, <<n_x, n_a_md>>}

ConfigInputs ==
  {[kind |-> "config", file |-> file, tree |-> tree] :
     file \in AnyConfigFiles, tree \in TreesOver(ConfigPaths, MaxFiles)}

n_dot_a == <<".", "a">>

\* source paths and exclude lists for the watcher's `ignored` option
IgnoreInputs ==
  {[kind |-> "ignore", path |-> path, excludes |-> excludes] :
     path \in {<<n_a_md>>, <<n_dot_a>>, <<n_guide, n_a_md>>, <<n_x, n_a_md>>},
     excludes \in {<<>>, DEFAULT_EXCLUDES, <<n_guide>>, <<n_docs>>}}

CodecInputs == MatchInputs \cup DocInputs \cup ConfigInputs \cup IgnoreInputs

CodecInit ==
  /\ src = EmptyTree
  /\ docsJson = [kind |-> "absent", exclude |-> JsonMissing, group_order |-> JsonMissing]
  /\ readdirOrder = "ascending"
  /\ dest = EmptyTree
  /\ manifest = <<>>
  /\ foundGroups = {}
  /\ phase = "idle"
  /\ config = DefaultConfig
  /\ knownGroups = {}
  /\ queue = <<>>
  /\ edits = 0
  /\ trail = Trail("dirty", <<>>)
  /\ last = Did("none", <<>>, Null, FALSE)
  /\ fnIn \in CodecInputs
  /\ fnOut = NoOutput
  /\ running = <<>>

ApplyMatchesPattern ==
  /\ fnIn.kind = "match"
  /\ ~fnOut.done
  /\ fnOut' = [done |-> TRUE, value |-> matchesPattern(fnIn.name, fnIn.pattern)]
  /\ FnFrame

\* const newContent = serializeFrontmatter(transformed) + '\n' + body
newContentOf(parsed, group, destPath, written, body) ==
  [parsed |-> parsed,
   group |-> group,
   destPath |-> destPath,
   frontmatter |-> written,
   newContent |-> serializeFrontmatter(written) \o <<"\n">> \o body,
   reparsed |-> parseFrontmatter(serializeFrontmatter(written) \o <<"\n">> \o body).frontmatter]

processedText(parsed, result) ==
  newContentOf(parsed.frontmatter, result.group, result.destPath,
               result.tree[result.destPath].content.fm, parsed.body)

\* processMarkdownFile on the text of a file
processText(path, parsed) ==
  processedText(parsed,
                processMarkdownFile((path :> MdFile(parsed.frontmatter, parsed.body)),
                                    path, EmptyTree))

ApplyProcessMarkdownText ==
  /\ fnIn.kind = "doc"
  /\ ~fnOut.done
  /\ fnOut' = [done |-> TRUE, value |-> processText(fnIn.path, parseFrontmatter(fnIn.content))]
  /\ FnFrame

\* syncDirectory raises when it tests an entry it comes to against a pattern
\* that is not a string; nothing in initialSync catches it
syncThrows(fs, excludes) ==
  \E p \in DOMAIN fs : \E k \in 1..Len(p) :
    /\ shouldExcludeThrows(p[k], excludes)
    /\ \A j \in 1..(k - 1) : ~shouldExclude(p[j], excludes)

\* initialSync with the configuration it loaded, or the TypeError
syncOrThrow(fs, file, cfg) ==
  IF syncThrows(fs, cfg.exclude)
  THEN [thrown |-> TRUE, config |-> cfg]
  ELSE [thrown |-> FALSE, config |-> cfg, synced |-> initialSync(fs, file, EmptyTree)]

ApplyInitialSync ==
  /\ fnIn.kind = "config"
  /\ ~fnOut.done
  /\ fnOut' = [done |-> TRUE, value |-> syncOrThrow(fnIn.tree, fnIn.file, loadConfig(fnIn.file))]
  /\ FnFrame

\* syncDirectory skips the file at `path`: one of the entries on the way
\* down to it satisfies shouldExclude
syncSkips(excludes, path) ==
  \E i \in 1..Len(path) : shouldExclude(path[i], excludes)

ApplyWatcherIgnores ==
  /\ fnIn.kind = "ignore"
  /\ ~fnOut.done
  /\ fnOut' = [done |-> TRUE,
               value |-> [ignored |-> watcherIgnores(fnIn.excludes, fnIn.path),
                          skipped |-> syncSkips(fnIn.excludes, fnIn.path)]]
  /\ FnFrame

CodecNext ==
  \/ ApplyMatchesPattern
  \/ ApplyProcessMarkdownText
  \/ ApplyInitialSync
  \/ ApplyWatcherIgnores

SpecCodec == CodecInit /\ [][CodecNext]_vars

-----------------------------------------------------------------------------
(* The program over a source tree of images, data files and one document *)

n_data_json == <<"d", "a", "t", "a", ".", "j", "s", "o", "n">>

AssetPaths == {<<n_logo_png>>, <<n_guide, n_logo_png>>, <<n_guide, n_data_json>>,
               <<n_a_md>>}
AssetDirs == {<<n_guide>>}

\* an image has one of two contents; the data file and the document have one
AssetContentsOf(path) ==
  IF path = <<n_a_md>> THEN {GroupedDoc}
  ELSE IF path = <<n_guide, n_data_json>> THEN {RawFile(1)}
  ELSE {RawFile(1), RawFile(2)}

RECURSIVE AssetTreesOver(_, _)
AssetTreesOver(paths, n) ==
  IF n = 0 \/ paths = {} THEN {EmptyTree}
  ELSE LET p == CHOOSE q \in paths : TRUE
           rest == AssetTreesOver(paths \ {p}, n)
           fewer == AssetTreesOver(paths \ {p}, n - 1)
       IN rest \cup {(p :> c) @@ t : c \in AssetContentsOf(p), t \in fewer}

AssetsInit ==
  /\ src \in AssetTreesOver(AssetPaths, MaxFiles)
  /\ docsJson \in ConfigFiles
  /\ readdirOrder \in {"ascending", "descending"}
  /\ dest = EmptyTree
  /\ manifest = <<>>
  /\ foundGroups = {}
  /\ phase = "idle"
  /\ config = DefaultConfig
  /\ knownGroups = {}
  /\ queue = <<>>
  /\ edits = 0
  /\ trail = Trail("dirty", <<>>)
  /\ last = Did("none", <<>>, Null, FALSE)
  /\ fnIn = NoInput
  /\ fnOut = NoOutput
  /\ running = <<>>

AssetsNext ==
  \/ \E path \in AssetPaths : \E content \in AssetContentsOf(path) : AddFile(path, content)
  \/ \E path \in AssetPaths : \E content \in AssetContentsOf(path) : ChangeFile(path, content)
  \/ \E path \in AssetPaths : UnlinkFile(path)
  \/ \E dir \in AssetDirs : UnlinkDir(dir)
  \/ \E file \in ConfigFiles : EditConfig(file)
  \/ \E watch \in BOOLEAN : Main(watch)
  \/ WatchStart
  \/ OnAddOrChange
  \/ OnAddOrChangeThrows
  \/ OnUnlink
  \/ Sigint

SpecAssets == AssetsInit /\ [][AssetsNext]_vars

-----------------------------------------------------------------------------
(* Watch mode call by call: a handler is a sequence of filesystem calls, *)
(* and the source tree may be edited between any two of them             *)

StepPaths == {<<n_a_md>>, <<n_guide, n_logo_png>>}
StepDirs == {<<n_guide>>}

StepsInit ==
  /\ src \in TreesOver(StepPaths, MaxFiles)
  /\ docsJson \in ConfigFiles
  /\ readdirOrder \in {"ascending", "descending"}
  /\ dest = EmptyTree
  /\ manifest = <<>>
  /\ foundGroups = {}
  /\ phase = "idle"
  /\ config = DefaultConfig
  /\ knownGroups = {}
  /\ queue = <<>>
  /\ edits = 0
  /\ trail = Trail("dirty", <<>>)
  /\ last = Did("none", <<>>, Null, FALSE)
  /\ fnIn = NoInput
  /\ fnOut = NoOutput
  /\ running = <<>>

\* the first call of the listener of an event: handleFileChange reads the
\* file unless it is a .json file, initialSync clears the destination
firstCall(event) ==
  IF event.kind \in {"unlink", "unlinkDir"} THEN "rmSync"
  ELSE IF extname(basename(event.path)) = ext_json THEN "return"
  ELSE "readFileSync"

\* activation i has made `call` and goes on at `next`
Moved(i, call, next, locals) ==
  running' = [running EXCEPT
                ![i] = Activation(@.event, next, returnsToEventLoop(call), locals)]

StandsAt(i, at) == running[i].at = at /\ Executing(running, i)

Stepped ==
  /\ trail' = Trail("dirty", <<>>)
  /\ last' = Did("step", <<>>, Null, FALSE)

\* the event loop calls the listener of the next event
Begin ==
  /\ phase = "watching"
  /\ queue # <<>>
  /\ callStackEmpty(running)
  /\ running' = Append(running, Activation(Head(queue), firstCall(Head(queue)),
                                           FALSE, <<>>))
  /\ queue' = Tail(queue)
  /\ Stepped
  /\ UNCHANGED <<src, docsJson, dest, manifest, foundGroups, phase, config,
                 knownGroups, readdirOrder, edits, fnIn, fnOut>>

\* readFileSync(srcPath) of processMarkdownFile and of copyFile
ReadFile ==
  \E i \in DOMAIN running :
    /\ StandsAt(i, "readFileSync")
    /\ Readable(running[i].event.path)
    /\ Moved(i, "readFileSync", "writeFileSync",
             (running[i].event.path :> src[running[i].event.path]))
    /\ Stepped
    /\ UNCHANGED <<src, docsJson, dest, manifest, foundGroups, phase, config,
                   knownGroups, queue, readdirOrder, edits, fnIn, fnOut>>

\* the file is gone: readFileSync throws and the process ends
ReadFileThrows ==
  \E i \in DOMAIN running :
    /\ StandsAt(i, "readFileSync")
    /\ ~Readable(running[i].event.path)
    /\ phase' = "crashed"
    /\ queue' = <<>>
    /\ running' = <<>>
    /\ config' = DefaultConfig
    /\ knownGroups' = {}
    /\ Stepped
    /\ UNCHANGED <<src, docsJson, dest, manifest, foundGroups, readdirOrder,
                   edits, fnIn, fnOut>>

\* what handleFileChange writes to the destination and adds to knownGroups
Written(i, r) ==
  /\ dest' = r.dest
  /\ knownGroups' = r.knownGroups
  /\ Moved(i, "writeFileSync", IF r.isNew THEN "sidebar" ELSE "return", <<>>)

\* writeFileSync(destPath, ...) of processMarkdownFile and of copyFile
WriteFile ==
  \E i \in DOMAIN running :
    /\ StandsAt(i, "writeFileSync")
    /\ Written(i, handleFileChange(running[i].locals, running[i].event.path, config,
                   [dest |-> dest, knownGroups |-> knownGroups, manifest |-> manifest]))
    /\ Stepped
    /\ UNCHANGED <<src, docsJson, manifest, foundGroups, phase, config, queue,
                   readdirOrder, edits, fnIn, fnOut>>

\* writeFileSync(sidebarConfigOutput, ...) of handleFileChange
WriteSidebar ==
  \E i \in DOMAIN running :
    /\ StandsAt(i, "sidebar")
    /\ manifest' = generateSidebarConfig(knownGroups, config.group_order)
    /\ Moved(i, "writeFileSync", "return", <<>>)
    /\ Stepped
    /\ UNCHANGED <<src, docsJson, dest, foundGroups, phase, config, knownGroups,
                   queue, readdirOrder, edits, fnIn, fnOut>>

\* loadConfig() and rmSync(destDir) of initialSync
RemoveDest ==
  \E i \in DOMAIN running :
    /\ StandsAt(i, "rmSync")
    /\ dest' = rmSync(dest)
    /\ Moved(i, "rmSync", "readdirSync", loadConfig(docsJson))
    /\ Stepped
    /\ UNCHANGED <<src, docsJson, manifest, foundGroups, phase, config,
                   knownGroups, queue, readdirOrder, edits, fnIn, fnOut>>

Walked(synced) ==
  /\ dest' = synced.tree
  /\ foundGroups' = synced.groups

\* syncDirectory(sourceDir, destDir, config.exclude) of initialSync
SyncAll ==
  \E i \in DOMAIN running :
    /\ StandsAt(i, "readdirSync")
    /\ Walked(syncDirectory(src, <<>>, running[i].locals.exclude,
                            [tree |-> dest, groups |-> {}]))
    /\ Moved(i, "readdirSync", "sidebarAll", running[i].locals)
    /\ Stepped
    /\ UNCHANGED <<src, docsJson, manifest, phase, config, knownGroups, queue,
                   readdirOrder, edits, fnIn, fnOut>>

\* writeFileSync(sidebarConfigOutput, ...) of initialSync
WriteSidebarAll ==
  \E i \in DOMAIN running :
    /\ StandsAt(i, "sidebarAll")
    /\ manifest' = generateSidebarConfig(foundGroups, running[i].locals.group_order)
    /\ Moved(i, "writeFileSync", "return", <<>>)
    /\ Stepped
    /\ UNCHANGED <<src, docsJson, dest, foundGroups, phase, config, knownGroups,
                   queue, readdirOrder, edits, fnIn, fnOut>>

\* the listener returns
Return ==
  \E i \in DOMAIN running :
    /\ StandsAt(i, "return")
    /\ running' = SubSeq(running, 1, i - 1) \o SubSeq(running, i + 1, Len(running))
    /\ Stepped
    /\ UNCHANGED <<src, docsJson, dest, manifest, foundGroups, phase, config,
                   knownGroups, queue, readdirOrder, edits, fnIn, fnOut>>

StepsNext ==
  \/ \E path \in StepPaths : \E content \in ContentsOf(path) : AddFile(path, content)
  \/ \E path \in StepPaths : \E content \in ContentsOf(path) : ChangeFile(path, content)
  \/ \E path \in StepPaths : UnlinkFile(path)
  \/ \E dir \in StepDirs : UnlinkDir(dir)
  \/ \E file \in ConfigFiles : EditConfig(file)
  \/ \E watch \in BOOLEAN : Main(watch)
  \/ WatchStart
  \/ Begin
  \/ ReadFile
  \/ ReadFileThrows
  \/ WriteFile
  \/ WriteSidebar
  \/ RemoveDest
  \/ SyncAll
  \/ WriteSidebarAll
  \/ Return
  \/ Sigint

SpecSteps == StepsInit /\ [][StepsNext]_vars

-----------------------------------------------------------------------------
(* generate-sidebar.mjs (scripts/init.sh): getAllDocs and groupDocs *)

\* frontmatter.sidebar_position ? parseInt(frontmatter.sidebar_position, 10) : 999
docPosition(frontmatter) ==
  IF fmTruthy(frontmatter, "sidebar_position")
  THEN parseInt(fmGet(frontmatter, "sidebar_position"))
  ELSE [nan |-> FALSE, val |-> 999]

\* the object pushed for the i-th file read
docEntry(i, frontmatter) ==
  [slug |-> i,
   sidebar_group |-> IF fmHas(frontmatter, "sidebar_group")
                     THEN fmGet(frontmatter, "sidebar_group") ELSE Null,
   sidebar_position |-> docPosition(frontmatter)]

\* the documents of the files read, in the order of reading; a file
\* without a title is left out
getAllDocs(files) ==
  SelectSeq([i \in 1..Len(files) |-> docEntry(i, files[i])],
            LAMBDA d : fmTruthy(files[d.slug], "title"))

\* the keys of the Map `groups`, in the order of insertion
RECURSIVE groupKeys(_, _)
groupKeys(docs, keys) ==
  IF docs = <<>> THEN keys
  ELSE groupKeys(Tail(docs),
                 IF Head(docs).sidebar_group = Null
                    \/ Head(docs).sidebar_group \in Range(keys)
                 THEN keys ELSE Append(keys, Head(docs).sidebar_group))

\* groups.get(label)
groupItems(docs, label) == SelectSeq(docs, LAMBDA d : d.sidebar_group = label)

\* one step of a stable sort: d goes behind the items that are not greater
insertByKey(sorted, d, key) ==
  LET k == Cardinality({j \in 1..Len(sorted) : key[sorted[j].slug] <= key[d.slug]})
  IN SubSeq(sorted, 1, k) \o <<d>> \o SubSeq(sorted, k + 1, Len(sorted))

RECURSIVE sortByKey(_, _, _)
sortByKey(items, sorted, key) ==
  IF items = <<>> THEN sorted
  ELSE sortByKey(Tail(items), insertByKey(sorted, Head(items), key), key)

positionKey(items) ==
  [i \in {items[j].slug : j \in 1..Len(items)} |->
     (CHOOSE d \in Range(items) : d.slug = i).sidebar_position.val]

\* items.sort((a, b) => a.sidebar_position - b.sidebar_position): a stable
\* sort when every difference is a number; with a NaN among the positions
\* the comparator is not consistent and the order is the implementation's
\* (given here by perm, an arrangement of all documents)
sort(items, perm) ==
  IF \E j \in 1..Len(items) : items[j].sidebar_position.nan
  THEN sortByKey(items, <<>>, perm)
  ELSE sortByKey(items, <<>>, positionKey(items))

\* the loop over GROUP_ORDER: a listed group that is in the Map is pushed
\* and deleted from the Map
RECURSIVE listedFirst(_, _, _)
listedFirst(order, keys, pushed) ==
  IF order = <<>> THEN pushed
  ELSE listedFirst(Tail(order), keys,
                   IF Head(order) \in Range(keys) /\ Head(order) \notin Range(pushed)
                   THEN Append(pushed, Head(order)) ELSE pushed)

\* for (const [label, items] of groups): what is left, in insertion order
remainingGroups(keys, pushed) ==
  SelectSeq(keys, LAMBDA label : label \notin Range(pushed))

sectionsOf(docs, labels, perm) ==
  [i \in 1..Len(labels) |->
     [label |-> labels[i], items |-> sort(groupItems(docs, labels[i]), perm)]]

orderedGroups(keys, pushed) == pushed \o remainingGroups(keys, pushed)

groupDocs(docs, GROUP_ORDER, perm) ==
  sectionsOf(docs, orderedGroups(groupKeys(docs, <<>>), listedFirst(GROUP_ORDER, groupKeys(docs, <<>>), <<>>)),
             perm)

\* the frontmatter of a file: a title, a group or none, a position or none
DocFrontmatters ==
  {<< <<"title", <<"T">>>> >> \o g \o q :
     g \in {<<>>, << <<"sidebar_group", l_Guide>> >>, << <<"sidebar_group", l_Zeta>> >>},
     q \in {<<>>, << <<"sidebar_position", <<"1">>>> >>,
            << <<"sidebar_position", <<"a">>>> >>}}

IndexInputs ==
  {[kind |-> "index", files |-> files, order |-> order] :
     files \in StringsUpTo(DocFrontmatters, MaxDocs),
     order \in {<<>>, <<l_Zeta, l_Guide>>}}

Arrangements(n) ==
  {f \in [1..n -> 1..n] : \A i, j \in 1..n : f[i] = f[j] => i = j}

IndexInit ==
  /\ src = EmptyTree
  /\ docsJson = [kind |-> "absent", exclude |-> JsonMissing, group_order |-> JsonMissing]
  /\ readdirOrder = "ascending"
  /\ dest = EmptyTree
  /\ manifest = <<>>
  /\ foundGroups = {}
  /\ phase = "idle"
  /\ config = DefaultConfig
  /\ knownGroups = {}
  /\ queue = <<>>
  /\ edits = 0
  /\ trail = Trail("dirty", <<>>)
  /\ last = Did("none", <<>>, Null, FALSE)
  /\ fnIn \in IndexInputs
  /\ fnOut = NoOutput
  /\ running = <<>>

\* groupDocs(getAllDocs(docsDir)), and sync-docs' generateSidebarConfig for
\* the same groups and the same group_order
ApplyGroupDocs ==
  /\ fnIn.kind = "index"
  /\ ~fnOut.done
  /\ \E perm \in Arrangements(Len(fnIn.files)) :
       fnOut' = [done |-> TRUE,
                 docs |-> getAllDocs(fnIn.files),
                 sections |-> groupDocs(getAllDocs(fnIn.files), fnIn.order, perm),
                 sidebar |-> generateSidebarConfig(
                               Range(groupKeys(getAllDocs(fnIn.files), <<>>)),
                               fnIn.order)]
  /\ FnFrame

IndexNext == ApplyGroupDocs

SpecIndex == IndexInit /\ [][IndexNext]_vars

-----------------------------------------------------------------------------
(* What the claims speak of, stated without the code's algorithms *)

\* a name matches a pattern, by the rule of the Pattern Matcher, for the
\* patterns with at most one "*"
MatchesRule(name, pattern) ==
  \/ pattern = <<"*">>
  \/ /\ Len(pattern) > 1
     /\ pattern[Len(pattern)] = "*"
     /\ StartsWith(name, SubSeq(pattern, 1, Len(pattern) - 1))
  \/ /\ Len(pattern) > 1
     /\ Head(pattern) = "*"
     /\ EndsWith(name, Tail(pattern))
  \/ name = pattern

\* the entry at `path`, or a directory above it, has an excluded name
ExcludedPath(path, excludes) ==
  \E i \in 1..Len(path) : \E j \in 1..Len(excludes) : MatchesRule(path[i], excludes[j])

IsMarkdown(path) == EndsWith(basename(path), ext_md) \/ EndsWith(basename(path), ext_mdx)
IsJson(path) == EndsWith(basename(path), ext_json)

IsRootIndex(path) == path = <<n_index_md>> \/ path = <<n_index_mdx>>

\* the source files a full sync has to bring to the destination
SyncedPaths(fs, excludes) ==
  {p \in DOMAIN fs : ~ExcludedPath(p, excludes) /\ (IsMarkdown(p) \/ ~IsJson(p))}

\* the destination path and file that one source file yields on its own
Derived(fs, p) ==
  IF IsMarkdown(p)
  THEN LET r == processMarkdownFile((p :> fs[p]), p, EmptyTree)
       IN [path |-> r.destPath, file |-> r.tree[r.destPath], group |-> r.group]
  ELSE [path |-> p, file |-> [origin |-> p, content |-> fs[p]], group |-> Null]

\* the groups of the markdown documents a full sync has to bring over
GroupsOf(fs, excludes) ==
  {Derived(fs, p).group :
     p \in {q \in SyncedPaths(fs, excludes) : IsMarkdown(q)}} \ {Null}

SectionLabels(sections) ==
  IF sections = <<>> THEN <<>>
  ELSE [i \in 1..(Len(sections) - 1) |-> sections[i + 1].label]

HasSection(sections, group) == group \in Range(SectionLabels(sections))

\* dest and manifest are what the last initialSync left
AfterFullSync == last.op \in {"sync", "unlink", "unlinkDir"}

\* the slug of a label: its maximal runs of [a-z0-9] after lower-casing,
\* joined by single hyphens
LowerText(t) == [i \in 1..Len(t) |-> toLowerCase(t[i])]

RunStarts(t) ==
  {i \in 1..Len(t) : IsSlugChar(t[i]) /\ (i = 1 \/ ~IsSlugChar(t[i - 1]))}

RunEnd(t, i) ==
  CHOOSE j \in i..Len(t) :
    /\ \A k \in i..j : IsSlugChar(t[k])
    /\ j = Len(t) \/ ~IsSlugChar(t[j + 1])

RECURSIVE JoinRuns(_, _)
JoinRuns(t, starts) ==
  IF starts = {} THEN <<>>
  ELSE LET i == CHOOSE a \in starts : \A b \in starts : a <= b
           run == SubSeq(t, i, RunEnd(t, i))
       IN IF starts = {i} THEN run
          ELSE run \o <<"-">> \o JoinRuns(t, starts \ {i})

SlugOf(label) == JoinRuns(LowerText(label), RunStarts(LowerText(label)))

FirstIndex(order, g) ==
  CHOOSE i \in 1..Len(order) : order[i] = g /\ \A j \in 1..(i - 1) : order[j] # g

\* labels lists the groups, each once: those of `order` first, by their
\* first place in it, then the others in ascending order
IsSectionOrder(labels, groups, order) ==
  /\ Len(labels) = Cardinality(groups)
  /\ Range(labels) = groups
  /\ \A i, j \in 1..Len(labels) :
       i < j =>
         LET a == labels[i]
             b == labels[j]
         IN IF a \in Range(order)
            THEN b \in Range(order) => FirstIndex(order, a) < FirstIndex(order, b)
            ELSE b \notin Range(order) /\ StrLess(a, b)

-----------------------------------------------------------------------------
(* C5 and C6, checked under SpecFn *)

\* C5: a markdown document assigned group label G is written to
\* <destination root>/<slug(G)>/<its file name>, slug(G) being G lower-cased
\* with every maximal run of characters outside [a-z0-9] replaced by one
\* hyphen and the hyphens at both ends removed; the directory of the source
\* file plays no part.
C5_GroupSlugPath ==
  (fnIn.kind = "md" /\ fnOut.done /\ fnOut.value.group # Null) =>
    /\ fnOut.value.destPath =
         join(join(<<>>, SlugOf(fnOut.value.group)), basename(fnIn.path))
    /\ DOMAIN fnOut.value.tree = {fnOut.value.destPath}

C5_Witness ==
  /\ fnIn.kind = "md"
  /\ fnOut.done
  /\ fnIn.path = <<n_guide, n_a_md>>
  /\ fnOut.value.group = <<"!", "A", " ", "-">>
  /\ fnOut.value.destPath = <<<<"a">>, n_a_md>>

\* C6: after the Introduction entry generateSidebarConfig emits one section
\* per discovered group, exactly once: the groups listed in group_order in
\* the order of their first occurrence there, then the others sorted by label.
C6_SectionOrder ==
  (fnIn.kind = "sidebar" /\ fnOut.done) =>
    /\ fnOut.value[1] = IntroductionEntry
    /\ IsSectionOrder(SectionLabels(fnOut.value), fnIn.groups, fnIn.order)

C6_Witness ==
  /\ fnIn.kind = "sidebar"
  /\ fnOut.done
  /\ fnIn.groups = {l_Guide, l_apps, DRAFTS_GROUP, l_API}
  /\ fnIn.order = <<l_apps, l_Zeta, l_apps>>
  /\ SectionLabels(fnOut.value) = <<l_apps, l_API, DRAFTS_GROUP, l_Guide>>

-----------------------------------------------------------------------------
(* C1 to C4 and C7 to C10, checked under Spec *)

\* C1: after initialSync returns, the destination tree holds exactly the
\* files derived from the present non-excluded source entries; nothing
\* written by an earlier full sync or add/change event survives otherwise.
C1_DestReflectsSource ==
  AfterFullSync =>
    LET excludes == loadConfig(docsJson).exclude
        wanted == SyncedPaths(src, excludes)
    IN /\ \A d \in DOMAIN dest :
            /\ dest[d].origin \in wanted
            /\ Derived(src, dest[d].origin).path = d
            /\ Derived(src, dest[d].origin).file = dest[d]
       /\ \A p \in wanted : Derived(src, p).path \in DOMAIN dest

\* a full resync after an add event was handled and a file or directory was
\* deleted: the destination is rebuilt and is not empty
C1_Witness ==
  /\ trail.st = "SAS"
  /\ last.op \in {"unlink", "unlinkDir"}
  /\ trail.f \notin DOMAIN src
  /\ dest # EmptyTree

\* C2: after a full sync, no source entry whose name, or the name of a
\* directory above it, matches an exclude pattern appears in the destination
\* tree, and no group contributed only by such entries is in the discovered
\* groups or in the manifest.
C2_ExcludedAbsent ==
  AfterFullSync =>
    LET excludes == loadConfig(docsJson).exclude
    IN /\ \A d \in DOMAIN dest : ~ExcludedPath(dest[d].origin, excludes)
       /\ foundGroups \subseteq GroupsOf(src, excludes)
       /\ Range(SectionLabels(manifest)) \subseteq GroupsOf(src, excludes)

\* the only document of group Guide lies in the excluded directory _x
C2_Witness ==
  /\ AfterFullSync
  /\ loadConfig(docsJson).exclude = DEFAULT_EXCLUDES
  /\ <<n_x, n_a_md>> \in DOMAIN src
  /\ fmTruthy(src[<<n_x, n_a_md>>].fm, "sidebar_group")
  /\ <<n_a_md>> \in DOMAIN src
  /\ foundGroups = {DRAFTS_GROUP}
  /\ DOMAIN dest = {<<slugify(DRAFTS_GROUP), n_a_md>>}

\* C3 (as the claim states it): after a full sync every non-excluded markdown
\* document without sidebar_group that is not the index file at the root of
\* the source tree is written under <destination>/drafts/ and "Drafts" is a
\* discovered group.
C3_NoGroupGoesToDrafts ==
  AfterFullSync =>
    \A p \in SyncedPaths(src, loadConfig(docsJson).exclude) :
      (IsMarkdown(p) /\ ~fmTruthy(src[p].fm, "sidebar_group") /\ ~IsRootIndex(p)) =>
        /\ <<slugify(DRAFTS_GROUP), basename(p)>> \in DOMAIN dest
        /\ DRAFTS_GROUP \in foundGroups

\* C4 (as the claim states it): after a full sync the root index document is
\* written to the destination root only, and contributes no group, whatever
\* its frontmatter.
C4_RootIndexUngrouped ==
  AfterFullSync =>
    LET excludes == loadConfig(docsJson).exclude
        others == RemovePaths(src, {<<n_index_md>>, <<n_index_mdx>>})
    IN /\ \A d \in DOMAIN dest : IsRootIndex(dest[d].origin) => d = dest[d].origin
       /\ foundGroups \subseteq GroupsOf(others, excludes)

\* C7: when an add or change event for a markdown file yields a group that
\* is not in knownGroups, the handler adds it to knownGroups and rewrites the
\* manifest with a section for it; when the group is known (or there is
\* none), knownGroups and the manifest are left as they are.
C7_NewGroupRegenerates ==
  [][(OnAddOrChange /\ IsMarkdown(Head(queue).path)) =>
       LET group == processMarkdownFile(src, Head(queue).path, dest).group
       IN IF group # Null /\ group \notin knownGroups
          THEN /\ knownGroups' = knownGroups \cup {group}
               /\ HasSection(manifest', group)
               /\ manifest' = generateSidebarConfig(knownGroups', config.group_order)
          ELSE /\ knownGroups' = knownGroups
               /\ manifest' = manifest]_vars

\* an add or change event brought a new group, which now has its section
C7_Witness ==
  /\ last.op \in {"add", "change"}
  /\ last.isNew
  /\ last.group \in knownGroups
  /\ last.group \notin foundGroups
  /\ HasSection(manifest, last.group)

\* C8: an unlink or unlinkDir event triggers a full resync: when its handler
\* returns, the destination holds no file derived from the deleted path (as
\* long as it is still deleted) and the manifest has no section for a group
\* without a member in the source tree.
C8_UnlinkResyncs ==
  last.op \in {"unlink", "unlinkDir"} =>
    LET excludes == loadConfig(docsJson).exclude
        stillGone == \A p \in DOMAIN src : p # last.path /\ ~IsUnder(last.path, p)
    IN /\ stillGone =>
            \A d \in DOMAIN dest :
              dest[d].origin # last.path /\ ~IsUnder(last.path, dest[d].origin)
       /\ Range(SectionLabels(manifest)) \subseteq GroupsOf(src, excludes)
       /\ manifest # <<>>
       /\ dest = initialSync(src, docsJson, EmptyTree).dest

\* a file whose add event had been handled was deleted again; others remain
C8_Witness ==
  /\ last.op = "unlink"
  /\ trail.st = "SAS"
  /\ last.path = trail.f
  /\ last.path \notin DOMAIN src
  /\ dest # EmptyTree

\* C9: a full sync, then the incremental handling of an add event for a new
\* file f, then a full resync leave the destination tree and the manifest
\* that one full sync of the resulting source tree, f included, leaves from
\* scratch.
C9_AddThenResync ==
  trail.st = "SAS" =>
    LET fresh == initialSync(src, docsJson, EmptyTree)
    IN dest = fresh.dest /\ manifest = fresh.manifest /\ foundGroups = fresh.groups

\* the added file is still there and the resync brought it over
C9_Witness ==
  /\ trail.st = "SAS"
  /\ trail.f \in DOMAIN src
  /\ \E d \in DOMAIN dest : dest[d].origin = trail.f

\* C10: a full sync run on a source tree and configuration that did not
\* change since the last full sync leaves the destination tree and the
\* manifest as they are.
C10_FullSyncIdempotent ==
  [][(trail.st \in Synced /\ \E watch \in BOOLEAN : Main(watch)) =>
       dest' = dest /\ manifest' = manifest /\ foundGroups' = foundGroups]_vars

\* two full syncs in a row, of a tree with two documents
C10_Witness ==
  /\ trail.st = "SS"
  /\ Cardinality(DOMAIN dest) = 2
  /\ Len(manifest) > 1

-----------------------------------------------------------------------------
(* C11 to C17, checked under SpecCodec *)

\* `name` begins with `prefix` / ends with `suffix`: some split of the name
\* has it on that side
HasPrefix(name, prefix) == \E rest \in {SubSeq(name, k, Len(name)) : k \in 1..(Len(name) + 1)} :
                             name = prefix \o rest
HasSuffix(name, suffix) == \E rest \in {SubSeq(name, 1, k) : k \in 0..Len(name)} :
                             name = rest \o suffix

IsPrefixForm(pattern) == Len(pattern) > 1 /\ pattern[Len(pattern)] = "*"
IsSuffixForm(pattern) == Len(pattern) > 1 /\ pattern[1] = "*"
WithoutLast(pattern) == SubSeq(pattern, 1, Len(pattern) - 1)
WithoutFirst(pattern) == SubSeq(pattern, 2, Len(pattern))

\* C15 as the claim states it: "*" matches every name; else a pattern longer
\* than 1 that ends in "*" matches the names starting with the rest of it;
\* else a pattern longer than 1 that starts with "*" matches the names ending
\* with the rest of it; else only the identical name matches. For all
\* patterns, those with "*" at both ends included.
C15_PrefixBeforeSuffix ==
  (fnIn.kind = "match" /\ fnOut.done) =>
    (fnOut.value <=>
       IF fnIn.pattern = <<"*">> THEN TRUE
       ELSE IF IsPrefixForm(fnIn.pattern)
       THEN HasPrefix(fnIn.name, WithoutLast(fnIn.pattern))
       ELSE IF IsSuffixForm(fnIn.pattern)
       THEN HasSuffix(fnIn.name, WithoutFirst(fnIn.pattern))
       ELSE fnIn.name = fnIn.pattern)

\* C15, amended: the suffix form is decided before the prefix form. "*"
\* matches every name; else a pattern longer than 1 that starts with "*"
\* matches the names ending with the rest of it; else a pattern longer than 1
\* that ends in "*" matches the names starting with the rest of it; else only
\* the identical name matches.
C15_SuffixBeforePrefix ==
  (fnIn.kind = "match" /\ fnOut.done) =>
    (fnOut.value <=>
       IF fnIn.pattern = <<"*">> THEN TRUE
       ELSE IF IsSuffixForm(fnIn.pattern)
       THEN HasSuffix(fnIn.name, WithoutFirst(fnIn.pattern))
       ELSE IF IsPrefixForm(fnIn.pattern)
       THEN HasPrefix(fnIn.name, WithoutLast(fnIn.pattern))
       ELSE fnIn.name = fnIn.pattern)

\* a pattern with "*" at both ends matched a name by its ending
C15_Witness ==
  /\ fnIn.kind = "match"
  /\ fnOut.done
  /\ fnIn.pattern = <<"*", "a", "*">>
  /\ fnIn.name = <<"b", "a", "*">>
  /\ fnOut.value

\* what the claims about one document speak of
DocDone == fnIn.kind = "doc" /\ fnOut.done
fmKeys(fm) == {fm[i][1] : i \in 1..Len(fm)}
Contains(text, t) ==
  \E i \in 0..(Len(text) - Len(t)) : SubSeq(text, i + 1, i + Len(t)) = t

\* a text is an integer: digits, after one sign at most
Unsigned(v) == IF v # <<>> /\ Head(v) \in {"-", "+"} THEN Tail(v) ELSE v
IsIntegerText(v) ==
  Unsigned(v) # <<>> /\ \A i \in 1..Len(Unsigned(v)) : IsDigit(Unsigned(v)[i])

RECURSIVE Pow10(_)
Pow10(n) == IF n = 0 THEN 1 ELSE 10 * Pow10(n - 1)

RECURSIVE PlaceSum(_, _)
PlaceSum(d, i) ==
  IF i > Len(d) THEN 0
  ELSE (IndexIn(DigitChars, d[i]) - 1) * Pow10(Len(d) - i) + PlaceSum(d, i + 1)

IntegerOf(v) ==
  IF v # <<>> /\ Head(v) = "-" THEN 0 - PlaceSum(Unsigned(v), 1) ELSE PlaceSum(Unsigned(v), 1)

\* the usual writing of an integer: no "+", no leading zeros, no "-0"
RECURSIVE DropZeros(_)
DropZeros(d) == IF Len(d) > 1 /\ Head(d) = "0" THEN DropZeros(Tail(d)) ELSE d
UsualText(v) ==
  IF IntegerOf(v) < 0 THEN <<"-">> \o DropZeros(Unsigned(v)) ELSE DropZeros(Unsigned(v))

OrderLine == <<" ", " ", "o", "r", "d", "e", "r", ":">>

\* C11: a document whose sidebar_position is an integer n gets, in the
\* frontmatter written to the destination, the nested mapping sidebar with
\* order = n, and no sidebar_position key.
C11_PositionBecomesOrder ==
  (DocDone /\ fmHas(fnOut.value.parsed, "sidebar_position")
           /\ IsIntegerText(fmGet(fnOut.value.parsed, "sidebar_position"))) =>
    /\ ~fmHas(fnOut.value.frontmatter, "sidebar_position")
    /\ fmHas(fnOut.value.frontmatter, "sidebar")
    /\ fmGet(fnOut.value.frontmatter, "sidebar") =
         <<"object",
           [order |-> [nan |-> FALSE,
                       val |-> IntegerOf(fmGet(fnOut.value.parsed, "sidebar_position"))]]>>
    /\ ~Contains(fnOut.value.newContent, keyText("sidebar_position"))
    /\ Contains(fnOut.value.newContent,
                <<"\n">> \o keyText("sidebar") \o <<":", "\n">> \o OrderLine \o <<" ">>
                  \o UsualText(fmGet(fnOut.value.parsed, "sidebar_position")) \o <<"\n">>)

\* a negative position was mapped, over a sidebar key of the input
C11_Witness ==
  /\ DocDone
  /\ fmHas(fnOut.value.parsed, "sidebar_position")
  /\ fmGet(fnOut.value.parsed, "sidebar_position") = <<"-", "3", "3">>
  /\ fmHas(fnOut.value.parsed, "sidebar")
  /\ fmGet(fnOut.value.frontmatter, "sidebar")[2].order.val = 0 - 33

\* C12: a document whose sidebar_position is missing, empty or not numeric
\* (here: without any digit) gets no order field in the frontmatter written,
\* no sidebar.order entry at all.
C12_NoOrderWithoutNumber ==
  (DocDone /\ (fmHas(fnOut.value.parsed, "sidebar_position") =>
                 \A i \in 1..Len(fmGet(fnOut.value.parsed, "sidebar_position")) :
                    ~IsDigit(fmGet(fnOut.value.parsed, "sidebar_position")[i]))) =>
    /\ ~(fmHas(fnOut.value.frontmatter, "sidebar")
           /\ IsObject(fmGet(fnOut.value.frontmatter, "sidebar")))
    /\ ~Contains(fnOut.value.newContent, <<"\n">> \o OrderLine)

KeptKeys == fmKeys(fnOut.value.parsed) \ {"sidebar_group", "sidebar_position"}
OutputKeys ==
  KeptKeys \cup {"title"}
    \cup (IF fmHas(fnOut.value.parsed, "sidebar_position") THEN {"sidebar"} ELSE {})
SameValue(k) ==
  /\ ~IsObject(fmGet(fnOut.value.frontmatter, k))
  /\ fmGet(fnOut.value.frontmatter, k) = fmGet(fnOut.value.parsed, k)

\* C13 as the claim states it: the keys of the output frontmatter are the
\* input keys without sidebar_group and sidebar_position, plus title when it
\* was absent, plus sidebar when a position was present, and every other key
\* keeps the value parsed from the input.
C13_OtherKeysKept ==
  DocDone =>
    /\ fmKeys(fnOut.value.frontmatter) = OutputKeys
    /\ \A k \in KeptKeys : SameValue(k)

\* C13, amended: the same, except that an empty title is replaced by the
\* title derived from the file name and that a sidebar key of the input is
\* replaced by the nested mapping when a position is present.
C13_OtherKeysKeptButEmptyTitle ==
  DocDone =>
    /\ fmKeys(fnOut.value.frontmatter) = OutputKeys
    /\ \A k \in KeptKeys :
         \/ k = "title" /\ fmGet(fnOut.value.parsed, "title") = <<>>
         \/ k = "sidebar" /\ fmHas(fnOut.value.parsed, "sidebar_position")
         \/ SameValue(k)

\* an unrecognized key with a colon and a quote in its value, next to a
\* title, in a document that is not an index
C13_Witness ==
  /\ DocDone
  /\ fnIn.path = <<n_a_md>>
  /\ fmKeys(fnOut.value.parsed) = {"tags", "title"}
  /\ fmGet(fnOut.value.frontmatter, "tags") = <<"a", ":", "\"">>
  /\ fmGet(fnOut.value.frontmatter, "title") = <<"T">>

PlainKeys(fm) == fmKeys(fm) \ {"sidebar", "order"}

\* C14: parseFrontmatter(serializeFrontmatter(m)) has the keys and the values
\* of m, the mapping transformFrontmatter made of a parsed block, apart from
\* the sidebar.order rewrite; also for values with a colon, a hash, an
\* apostrophe or a double quote.
C14_RoundTrip ==
  DocDone =>
    /\ PlainKeys(fnOut.value.reparsed) = PlainKeys(fnOut.value.frontmatter)
    /\ \A k \in PlainKeys(fnOut.value.frontmatter) :
         fmGet(fnOut.value.reparsed, k) = fmGet(fnOut.value.frontmatter, k)

\* the title the claim derives from a file name: the name without its
\* extension, every run of "-" and "_" made one blank, the first character of
\* every run of letters and digits in upper case
Stem(name) ==
  IF EndsWith(name, ext_mdx) THEN SubSeq(name, 1, Len(name) - 4)
  ELSE IF EndsWith(name, ext_md) THEN SubSeq(name, 1, Len(name) - 3)
  ELSE name
IsDash(c) == c \in {"-", "_"}
KeptAt(s) == {i \in 1..Len(s) : ~IsDash(s[i]) \/ i = 1 \/ ~IsDash(s[i - 1])}
Nth(S, j) == CHOOSE i \in S : Cardinality({k \in S : k <= i}) = j
Spaced(s) ==
  [j \in 1..Cardinality(KeptAt(s)) |->
     IF IsDash(s[Nth(KeptAt(s), j)]) THEN " " ELSE s[Nth(KeptAt(s), j)]]
IsAlnum(c) == IsUpper(c) \/ IsLower(c) \/ IsDigit(c)
Titled(t) ==
  [j \in 1..Len(t) |->
     IF IsAlnum(t[j]) /\ (j = 1 \/ ~IsAlnum(t[j - 1])) THEN toUpperCase(t[j]) ELSE t[j]]
TitleOf(name) == Titled(Spaced(Stem(name)))

C17_ConfigNeverFatal ==
  (fnIn.kind = "config" /\ fnOut.done) =>
    /\ ~fnOut.value.thrown
    /\ (fnIn.file.kind # "object" \/ fnIn.file.exclude.type # "array")
         => fnOut.value.config.exclude = DEFAULT_EXCLUDES
    /\ (fnIn.file.kind # "object" \/ fnIn.file.group_order.type # "array")
         => fnOut.value.config.group_order = <<>>

-----------------------------------------------------------------------------
(* C18 and C19, checked under SpecAssets *)

\* a file that is neither a document nor a data file
IsPlainFile(path) == ~IsMarkdown(path) /\ ~IsJson(path)

\* the copy of the source file at the same relative path
IsMirrored(path) ==
  /\ path \in DOMAIN dest
  /\ dest[path] = [origin |-> path, content |-> src[path]]

\* C18: every source file that is not excluded and is not .md, .mdx or .json
\* is in the destination at its own relative path with its own content once
\* a full sync has run, and an add or change event of watch mode for such a
\* file leaves the copy at that same relative path.
C18_CopiedToMirroredPath ==
  /\ AfterFullSync =>
       \A p \in DOMAIN src :
         IsPlainFile(p) /\ ~ExcludedPath(p, loadConfig(docsJson).exclude)
           => IsMirrored(p)
  /\ last.op \in {"add", "change"} /\ IsPlainFile(last.path) => IsMirrored(last.path)

\* an image below guide was copied by a full sync, then rewritten, and its
\* change event was handled
C18_Witness ==
  /\ last.op = "change"
  /\ last.path = <<n_guide, n_logo_png>>
  /\ trail.st = "dirty"
  /\ edits = 1
  /\ IsMirrored(<<n_guide, n_logo_png>>)

\* C19: the destination tree never holds a file whose name ends in .json,
\* whatever full syncs and watch events have happened.
C19_NoJsonInDest == \A p \in DOMAIN dest : ~IsJson(p)

\* the add event of guide/data.json was handled while the destination held
\* files, and the data file is still in the source tree
C19_Witness ==
  /\ last.op = "add"
  /\ last.path = <<n_guide, n_data_json>>
  /\ <<n_guide, n_data_json>> \in DOMAIN src
  /\ dest # EmptyTree

-----------------------------------------------------------------------------
(* C20, checked under SpecSteps *)

IsHandler(activation) ==
  activation.event.kind \in {"add", "change", "unlink", "unlinkDir"}

\* the handlers begun and not yet returned
InProgress == {i \in DOMAIN running : IsHandler(running[i])}

\* C20: in watch mode a handler of add, change, unlink or unlinkDir runs to
\* its return before the handler of the next event starts: at most one
\* handler (incremental update or full resync) is in progress in any
\* reachable state, however the edits of the source tree fall between its
\* filesystem calls.
C20_OneHandlerAtATime == Cardinality(InProgress) <= 1

\* a full resync has cleared the destination and has not yet walked the
\* source tree, while the event of a later edit waits in the queue
C20_Witness ==
  /\ Len(running) = 1
  /\ running[1].event.kind = "unlink"
  /\ running[1].at = "readdirSync"
  /\ queue # <<>>
  /\ Head(queue).kind \in {"add", "change"}

-----------------------------------------------------------------------------
(* C21, checked under Spec *)

\* C21: in watch mode a failure while handling one event (the file of an
\* add or change event can no longer be read) is logged and the watcher
\* keeps running: after the failure the process is still watching.
C21_FailureKeepsWatching == last.op = "throw" => phase = "watching"

-----------------------------------------------------------------------------
(* C24, checked under SpecFn *)

\* the group named after a directory: api gives "Api"
DirectoryGroup(dir) == <<toUpperCase(Head(dir))>> \o Tail(dir)

\* C24 (as the claim states it): a markdown file without sidebar_group, the
\* index files apart, is assigned the group named after its directory when
\* it lies in a subdirectory, and "Drafts" only when it lies at the root.
C24_DirectoryNamesGroup ==
  (/\ fnIn.kind = "md"
   /\ fnOut.done
   /\ ~fmTruthy(fnIn.fm, "sidebar_group")
   /\ ~isIndexName(basename(fnIn.path))) =>
    fnOut.value.group = IF Len(fnIn.path) > 1
                        THEN DirectoryGroup(fnIn.path[Len(fnIn.path) - 1])
                        ELSE DRAFTS_GROUP

-----------------------------------------------------------------------------
(* C25 to C29, checked under Spec *)

\* C25 (as the claim states it): the group_order that docs.json holds now is
\* the one in force for the next sync operation of either kind: the manifest
\* a full resync writes, and the manifest an add or change handler writes
\* for a new group, order their sections by it.
C25_ConfigInForce ==
  /\ AfterFullSync =>
       IsSectionOrder(SectionLabels(manifest), foundGroups,
                      loadConfig(docsJson).group_order)
  /\ (phase = "watching" /\ last.op \in {"add", "change"} /\ last.isNew) =>
       IsSectionOrder(SectionLabels(manifest), knownGroups,
                      loadConfig(docsJson).group_order)

\* the slug directories that hold a document in the destination tree
DocDirs == {p[1] : p \in {q \in DOMAIN dest : IsMarkdown(q) /\ Len(q) = 2}}

\* C26 (as the claim states it): whenever a watch-mode handler has returned,
\* the sections of the manifest are the groups with at least one document
\* in the destination tree.
C26_SectionsAreGroupsInDest ==
  (phase = "watching" /\ last.op \in {"add", "change", "unlink", "unlinkDir"}) =>
    {SlugOf(l) : l \in Range(SectionLabels(manifest))} = DocDirs

\* C27 (as the claim states it): the knownGroups that the watcher starts
\* with are the groups a full sync of the same source tree and docs.json
\* discovers; excluded files and directories contribute none.
C27_KnownGroupsAtStart ==
  [][(phase = "starting" /\ phase' = "watching")
       => knownGroups' = GroupsOf(src', loadConfig(docsJson').exclude)]_vars

\* C28 (as the claim states it): after the change event of a markdown file
\* is handled, the destination holds the output of that file at the path
\* of its present group only.
C28_OnlyUnderNewGroup ==
  (phase = "watching" /\ last.op = "change" /\ IsMarkdown(last.path)) =>
    \A p \in DOMAIN dest :
      dest[p].origin = last.path => p = Derived(src, last.path).path

\* C29 (as the claim states it): after a full sync every non-excluded
\* markdown file of the source tree has its own output in the destination:
\* no output was overwritten by that of another document.
C29_DistinctOutputs ==
  last.op = "sync" =>
    \A p \in SyncedPaths(src, loadConfig(docsJson).exclude) :
      IsMarkdown(p) => \E d \in DOMAIN dest : dest[d].origin = p

-----------------------------------------------------------------------------
(* C30, checked under SpecCodec *)

\* C30 (as the claim states it): the watcher ignores a source path exactly
\* when a full sync skips it, that is when one of its components below the
\* source root satisfies shouldExclude for the configured patterns.
C30_IgnoredIffSkipped ==
  (fnIn.kind = "ignore" /\ fnOut.done) =>
    (fnOut.value.ignored <=> ExcludedPath(fnIn.path, fnIn.excludes))

-----------------------------------------------------------------------------
(* C22 and C23, checked under SpecIndex *)

\* the weight of a document: its sidebar_position when that is an integer
\* text, and 999 when it is absent or not numeric
PositionText(frontmatter) ==
  IF fmHas(frontmatter, "sidebar_position")
  THEN fmGet(frontmatter, "sidebar_position") ELSE <<>>

WeightOf(frontmatter) ==
  IF IsIntegerText(PositionText(frontmatter))
  THEN IntegerOf(PositionText(frontmatter)) ELSE 999

SectionItems(i) == fnOut.sections[i].items

\* C22 (as the claim states it): within each section built by groupDocs the
\* documents are in ascending order of weight, and documents of equal
\* weight keep the order in which they were discovered.
C22_ItemsByPosition ==
  (fnIn.kind = "index" /\ fnOut.done) =>
    \A i \in 1..Len(fnOut.sections) :
      \A j, k \in 1..Len(SectionItems(i)) :
        j < k =>
          \/ WeightOf(fnIn.files[SectionItems(i)[j].slug])
               < WeightOf(fnIn.files[SectionItems(i)[k].slug])
          \/ /\ WeightOf(fnIn.files[SectionItems(i)[j].slug])
                  = WeightOf(fnIn.files[SectionItems(i)[k].slug])
             /\ SectionItems(i)[j].slug < SectionItems(i)[k].slug

\* C23 (as the claim states it): for the same groups and the same
\* group_order the section labels of groupDocs are those of sync-docs'
\* generateSidebarConfig: the listed groups in configured order, then the
\* others sorted by label.
C23_SameSectionLabels ==
  (fnIn.kind = "index" /\ fnOut.done) =>
    /\ [i \in 1..Len(fnOut.sections) |-> fnOut.sections[i].label]
         = SectionLabels(fnOut.sidebar)
    /\ IsSectionOrder([i \in 1..Len(fnOut.sections) |-> fnOut.sections[i].label],
                      {fnOut.docs[i].sidebar_group : i \in 1..Len(fnOut.docs)} \ {Null},
                      fnIn.order)

====
